---- MODULE Spec2Model ----
(***************************************************************************)
(* Verification model of the Infinity Stones search engine:                *)
(*   - LRUCache (advanced_caching.py), sequentially and under threads;     *)
(*   - BooleanSearchEngine (advanced_search_features.py): tokenizer,       *)
(*     recursive-descent parser and set evaluator.                         *)
(***************************************************************************)
EXTENDS Integers, Sequences, FiniteSets, TLC

(***************************************************************************)
(* Bounds of the model.                                                    *)
(***************************************************************************)
MaxSize == 2        \* largest max_size an LRUCache is constructed with
MaxTtl == 1         \* largest ttl (in clock ticks) a cache is constructed with
MaxTime == 2        \* last value of the clock time.time()
MaxOps == 4         \* calls made on the sequentially used cache

Keys == {"k1", "k2", "k3"}
Values == {"v1", "v2"}
None == "None"

Min(a, b) == IF a <= b THEN a ELSE b

(***************************************************************************)
(* Python containers.  An OrderedDict is a sequence of [key, value]        *)
(* entries in insertion order; a dict is a function on its key set.        *)
(***************************************************************************)
EmptyDict == [k \in {} |-> 0]
KeysOf(od) == {od[i].key : i \in 1..Len(od)}
OdGet(od, k) == od[CHOOSE i \in 1..Len(od) : od[i].key = k].value
OdPop(od, k) == SelectSeq(od, LAMBDA e : e.key # k)
OdSet(od, k, v) ==
    IF k \in KeysOf(od)
    THEN [i \in 1..Len(od) |->
             IF od[i].key = k THEN [key |-> k, value |-> v] ELSE od[i]]
    ELSE Append(od, [key |-> k, value |-> v])
DictDel(d, k) == [x \in (DOMAIN d) \ {k} |-> d[x]]
DictSet(d, k, v) == [x \in (DOMAIN d) \cup {k} |-> IF x = k THEN v ELSE d[x]]

(***************************************************************************)
(* LRUCache: the methods as functions of the object `s` (a record of the   *)
(* instance attributes) to the object after the call and the value         *)
(* returned.                                                               *)
(***************************************************************************)
LRUCache(n, t) ==
    [max_size |-> n, ttl |-> t, cache |-> << >>, access_times |-> EmptyDict,
     hits |-> 0, misses |-> 0, evictions |-> 0]

_remove(s, key) ==
    IF key \in KeysOf(s.cache)
    THEN [s EXCEPT !.cache = OdPop(s.cache, key),
                   !.access_times = DictDel(s.access_times, key)]
    ELSE s

\* the entry keeps its place in the order
MoveToEnd_InPlace(od, key, value) == OdSet(od, key, value)

\* lines 48-49: pop the key and insert it again, at the end
MoveToEnd(od, key, value) == OdSet(OdPop(od, key), key, value)

\* the expired entry is left in the cache
GetExpired_NoRemove(s, key) == [s EXCEPT !.misses = s.misses + 1]

GetExpired(s, key) == [_remove(s, key) EXCEPT !.misses = s.misses + 1]

\* the miss is not counted
GetMiss_NotCounted(s) == s

GetMiss(s) == [s EXCEPT !.misses = s.misses + 1]

\* get: t1 is time.time() of the expiry test, t2 the one stored on a hit
get(s, key, t1, t2) ==
    LET IsExpired == t1 - s.access_times[key] > s.ttl
        GetHit ==
            [s EXCEPT !.cache = MoveToEnd(s.cache, key, OdGet(s.cache, key)),
                      !.access_times = DictSet(s.access_times, key, t2),
                      !.hits = s.hits + 1]
    IN IF key \in KeysOf(s.cache)
       THEN IF IsExpired
            THEN [obj |-> GetExpired(s, key), ret |-> None]
            ELSE [obj |-> GetHit, ret |-> OdGet(s.cache, key)]
       ELSE [obj |-> GetMiss(s), ret |-> None]

\* capacity test off by one
PutEvict_OffByOne(s) ==
    IF Len(s.cache) > s.max_size
    THEN [_remove(s, s.cache[1].key) EXCEPT !.evictions = s.evictions + 1]
    ELSE s

\* evicts the most recently used entry
PutEvict_Newest(s) ==
    IF Len(s.cache) >= s.max_size
    THEN [_remove(s, s.cache[Len(s.cache)].key) EXCEPT !.evictions = s.evictions + 1]
    ELSE s

PutEvict(s) ==
    IF Len(s.cache) >= s.max_size
    THEN [_remove(s, s.cache[1].key) EXCEPT !.evictions = s.evictions + 1]
    ELSE s

\* the capacity test runs before the key is looked up
put_EvictFirst(s, key, value, current_time) ==
    LET e == PutEvict(s)
    IN [e EXCEPT !.cache = MoveToEnd(e.cache, key, value),
                 !.access_times = DictSet(e.access_times, key, current_time)]

put(s, key, value, current_time) ==
    IF key \in KeysOf(s.cache)
    THEN [s EXCEPT !.cache = MoveToEnd(s.cache, key, value),
                   !.access_times = DictSet(s.access_times, key, current_time)]
    ELSE LET e == PutEvict(s)
         IN [e EXCEPT !.cache = OdSet(e.cache, key, value),
                      !.access_times = DictSet(e.access_times, key, current_time)]

clear(s) == [s EXCEPT !.cache = << >>, !.access_times = EmptyDict]

size(s) == Len(s.cache)

\* entries exactly ttl old are taken as expired
ExpiredKeys_AtTtl(s, current_time) ==
    {key \in DOMAIN s.access_times : current_time - s.access_times[key] >= s.ttl}

ExpiredKeys(s, current_time) ==
    {key \in DOMAIN s.access_times : current_time - s.access_times[key] > s.ttl}

cleanup_expired(s, current_time) ==
    LET expired_keys == ExpiredKeys(s, current_time)
        \* for key in expired_keys: self._remove(key)
        RECURSIVE RemoveAll(_, _)
        RemoveAll(o, ks) ==
            IF ks = {} THEN o
            ELSE LET key == CHOOSE k \in ks : TRUE
                 IN RemoveAll(_remove(o, key), ks \ {key})
    IN [obj |-> RemoveAll(s, expired_keys), ret |-> Cardinality(expired_keys)]

\* hit_ratio is the quotient num/den
get_stats(s) ==
    LET total_requests == s.hits + s.misses
    IN [size |-> Len(s.cache), max_size |-> s.max_size, hits |-> s.hits,
        misses |-> s.misses,
        hit_ratio |-> IF total_requests > 0
                      THEN [num |-> s.hits, den |-> total_requests]
                      ELSE [num |-> 0, den |-> 1],
        evictions |-> s.evictions, ttl |-> s.ttl]

(***************************************************************************)
(* State.                                                                  *)
(*   max_size .. evictions   the attributes of one LRUCache instance       *)
(*   now                     the clock read by time.time()                 *)
(*   last                    the latest call on the cache and its result   *)
(*   ops, gets               number of calls / of get calls made so far    *)
(*   hist                    per key, what the callers know of it: the     *)
(*                           value of its latest put, the time of its      *)
(*                           latest put or successful get, and what became *)
(*                           of it (never put, live, evicted, expired,     *)
(*                           cleared)                                      *)
(*   touchOrder              the stored keys, by latest put/successful get *)
(*   pc, loc                 per thread: the line it is at in the method   *)
(*                           it runs, and its arguments and local names    *)
(*   lock                    the owner of self.lock (NoThread when free)   *)
(*   calls                   per thread: the calls it has started          *)
(*   shadow                  the cache the completed calls give when run   *)
(*                           one after the other in the order they release *)
(*                           the lock                                      *)
(*   overlap                 a call was started while another was running  *)
(*   query                   the boolean query, as its whitespace-separated*)
(*                           words; a word is a sequence of characters     *)
(*   tokens, parsed          the tokens and the result of                  *)
(*                           parse_boolean_query(query)                    *)
(*   bpc                     how far the parse has got                     *)
(*   expression,             the arguments of evaluate_boolean_expression  *)
(*   product_matches                                                       *)
(*   given                   product_matches as it was passed              *)
(*   result                  the set evaluate_boolean_expression returned  *)
(*   epc                     how far the evaluation has got                *)
(*   products                the documents the engine has loaded           *)
(*   analytics               the engine's counters of queries:             *)
(*                           total_searches and popular_queries            *)
(*   objects                 the Python objects the result cache refers    *)
(*                           to, by reference (the cache stores references)*)
(*   served                  the latest call on the engine: its arguments, *)
(*                           what it returned or raised, the stages it ran *)
(*   eops                    number of calls made so far on the engine and *)
(*                           on its cache                                  *)
(*   facet_products, facets  the attributes of one FacetedSearchEngine     *)
(*   product_ids, filters    the arguments of the latest filter_by_facets  *)
(*   filtered_ids            the set it returned                           *)
(*   fpc                     whether filter_by_facets has been called      *)
(*   fuzzy_threshold         similarity_threshold of a FuzzySearchEngine   *)
(*   fuzzy_term,             the arguments query_term, corpus_terms and    *)
(*   fuzzy_corpus, fuzzy_max max_results of find_fuzzy_matches             *)
(*   fuzzy_matches           the list find_fuzzy_matches returned          *)
(*   zpc                     how far find_fuzzy_matches has got            *)
(*   reality_products        the documents of an engine whose RealityStone *)
(*   reality_query           is asked for reality_query                    *)
(*   reality_out             what RealityStone.search did: whether it      *)
(*                           raised, the document frequencies it used, the *)
(*                           list before _ensure_diversity and the list    *)
(*                           it returned                                   *)
(*   rpc                     whether RealityStone.search has been called   *)
(***************************************************************************)
VARIABLES max_size, ttl, cache, access_times, hits, misses, evictions, now,
          last, ops, gets, hist, touchOrder,
          pc, loc, lock, calls, shadow, overlap,
          query, tokens, parsed, bpc,
          expression, product_matches, given, result, epc,
          products, analytics, objects, served, eops,
          facet_products, facets, product_ids, filters, filtered_ids, fpc,
          fuzzy_threshold, fuzzy_term, fuzzy_corpus, fuzzy_max,
          fuzzy_matches, zpc,
          reality_products, reality_query, reality_out, rpc

cacheVars == <<max_size, ttl, cache, access_times, hits, misses, evictions>>
seqVars == <<last, ops, gets, hist, touchOrder>>
concVars == <<pc, loc, lock, calls, shadow, overlap>>
boolVars == <<query, tokens, parsed, bpc>>
evalVars == <<expression, product_matches, given, result, epc>>
engVars == <<products, analytics, objects, served, eops>>
facetVars == <<facet_products, facets, product_ids, filters, filtered_ids, fpc>>
fuzzyVars == <<fuzzy_threshold, fuzzy_term, fuzzy_corpus, fuzzy_max,
               fuzzy_matches, zpc>>
realityVars == <<reality_products, reality_query, reality_out, rpc>>
otherVars == <<boolVars, evalVars, engVars, facetVars, fuzzyVars, realityVars>>
vars == <<cacheVars, now, seqVars, concVars, otherVars>>

self == [max_size |-> max_size, ttl |-> ttl, cache |-> cache,
         access_times |-> access_times, hits |-> hits, misses |-> misses,
         evictions |-> evictions]

Assign(s) ==
    /\ max_size' = s.max_size
    /\ ttl' = s.ttl
    /\ cache' = s.cache
    /\ access_times' = s.access_times
    /\ hits' = s.hits
    /\ misses' = s.misses
    /\ evictions' = s.evictions

Absent(why) == [val |-> None, at |-> 0, why |-> why]

\* what the callers know after a call that took the cache from s to o
Record(s, o, touched, val, at, why) ==
    LET gone == KeysOf(s.cache) \ KeysOf(o.cache)
    IN /\ hist' = [k \in Keys |->
                     IF k \in gone THEN Absent(why)
                     ELSE IF k \in touched
                          THEN [val |-> IF val = None THEN hist[k].val ELSE val,
                                at |-> at, why |-> "live"]
                          ELSE hist[k]]
       /\ touchOrder' =
             LET kept == SelectSeq(touchOrder, LAMBDA k : k \notin gone /\ k \notin touched)
             IN IF touched = {} THEN kept
                ELSE Append(kept, CHOOSE k \in touched : TRUE)

Threads == {1, 2}
NoThread == 0
NoLocals == [op |-> None, key |-> None, value |-> None, t1 |-> 0, t2 |-> 0,
             back |-> None, rm |-> None, expired_keys |-> {}, ret |-> None]

Call(op, key, value, ret) == [op |-> op, key |-> key, value |-> value, ret |-> ret]

\* the parts of the program that are not running are at rest: every part
\* but those in running is as it is before it is constructed
Idle(running) ==
    /\ IF "cache" \in running THEN TRUE
       ELSE /\ max_size = 1
            /\ ttl = 1
            /\ cache = << >>
            /\ access_times = EmptyDict
            /\ hits = 0
            /\ misses = 0
            /\ evictions = 0
            /\ now = 0
            /\ last = Call("init", None, None, None)
            /\ ops = 0
            /\ gets = 0
            /\ hist = [k \in Keys |-> Absent("never")]
            /\ touchOrder = << >>
    /\ IF "threads" \in running THEN TRUE
       ELSE /\ pc = [t \in Threads |-> "idle"]
            /\ loc = [t \in Threads |-> NoLocals]
            /\ lock = NoThread
            /\ calls = [t \in Threads |-> 0]
            /\ shadow = LRUCache(1, 1)
            /\ overlap = FALSE
    /\ IF "bool" \in running THEN TRUE
       ELSE /\ query = << >>
            /\ tokens = << >>
            /\ parsed = [success |-> FALSE]
            /\ bpc = "idle"
    /\ IF "eval" \in running THEN TRUE
       ELSE /\ expression = [type |-> "empty"]
            /\ product_matches = EmptyDict
            /\ given = EmptyDict
            /\ result = {}
            /\ epc = "idle"
    /\ IF "engine" \in running THEN TRUE
       ELSE /\ products = << >>
            /\ analytics = [total_searches |-> 0,
                            popular_queries |-> EmptyDict]
            /\ objects = EmptyDict
            /\ served = [op |-> "init"]
            /\ eops = [search |-> 0, cache |-> 0]
    /\ IF "facet" \in running THEN TRUE
       ELSE /\ facet_products = << >>
            /\ facets = EmptyDict
            /\ product_ids = {}
            /\ filters = << >>
            /\ filtered_ids = {}
            /\ fpc = "idle"
    /\ IF "fuzzy" \in running THEN TRUE
       ELSE /\ fuzzy_threshold = [n |-> 0, d |-> 1]
            /\ fuzzy_term = << >>
            /\ fuzzy_corpus = << >>
            /\ fuzzy_max = 0
            /\ fuzzy_matches = << >>
            /\ zpc = "idle"
    /\ IF "reality" \in running THEN TRUE
       ELSE /\ reality_products = << >>
            /\ reality_query = << >>
            /\ reality_out = [raises |-> FALSE, terms |-> {}, ranked |-> << >>,
                              results |-> << >>]
            /\ rpc = "idle"

Init ==
    /\ max_size \in 1..MaxSize
    /\ ttl \in 1..MaxTtl
    /\ cache = << >>
    /\ access_times = EmptyDict
    /\ hits = 0
    /\ misses = 0
    /\ evictions = 0
    /\ now = 0
    /\ last = Call("init", None, None, None)
    /\ ops = 0
    /\ gets = 0
    /\ hist = [k \in Keys |-> Absent("never")]
    /\ touchOrder = << >>
    /\ Idle({"cache"})

Get(key) ==
    /\ ops < MaxOps
    /\ \E t2 \in now..Min(now + 1, MaxTime) :
          LET r == get(self, key, now, t2)
              hit == r.ret # None
          IN /\ Assign(r.obj)
             /\ now' = IF hit THEN t2 ELSE now
             /\ last' = Call("get", key, None, r.ret)
             /\ Record(self, r.obj, IF hit THEN {key} ELSE {}, None, t2, "expired")
    /\ ops' = ops + 1
    /\ gets' = gets + 1
    /\ UNCHANGED <<concVars, otherVars>>

Put(key, value) ==
    /\ ops < MaxOps
    /\ LET o == put(self, key, value, now)
       IN /\ Assign(o)
          /\ Record(self, o, {key}, value, now, "evicted")
    /\ last' = Call("put", key, value, None)
    /\ ops' = ops + 1
    /\ UNCHANGED <<now, gets>>
    /\ UNCHANGED <<concVars, otherVars>>

CleanupExpired ==
    /\ ops < MaxOps
    /\ LET r == cleanup_expired(self, now)
       IN /\ Assign(r.obj)
          /\ last' = Call("cleanup_expired", None, None, r.ret)
          /\ Record(self, r.obj, {}, None, 0, "expired")
    /\ ops' = ops + 1
    /\ UNCHANGED <<now, gets>>
    /\ UNCHANGED <<concVars, otherVars>>

Clear ==
    /\ ops < MaxOps
    /\ LET o == clear(self)
       IN /\ Assign(o)
          /\ Record(self, o, {}, None, 0, "cleared")
    /\ last' = Call("clear", None, None, None)
    /\ ops' = ops + 1
    /\ UNCHANGED <<now, gets>>
    /\ UNCHANGED <<concVars, otherVars>>

\* time passes between calls
Tick ==
    /\ now < MaxTime
    /\ now' = now + 1
    /\ last' = Call("tick", None, None, None)
    /\ UNCHANGED <<cacheVars, ops, gets, hist, touchOrder>>
    /\ UNCHANGED <<concVars, otherVars>>

Next ==
    \/ \E key \in Keys : Get(key)
    \/ \E key \in Keys, value \in Values : Put(key, value)
    \/ CleanupExpired
    \/ Clear
    \/ Tick

Spec == Init /\ [][Next]_vars

(***************************************************************************)
(* The same cache called from several threads.  Every method body runs     *)
(* inside `with self.lock`; a thread's pc names the source line it is      *)
(* about to execute.  A failed dict operation raises KeyError, which       *)
(* leaves the with block (releasing the lock) with loc.ret = "KeyError".   *)
(***************************************************************************)
MaxCalls == 2       \* calls the threads make in all

\* threading.RLock: free, or already owned by the caller
\* (the variant below excludes nobody)
CanAcquire_NoExclusion(owner, t) == TRUE

CanAcquire(owner, t) == owner = NoThread \/ owner = t

Goto(t, label) == pc' = [pc EXCEPT ![t] = label]
Raise(t) ==
    /\ pc' = [pc EXCEPT ![t] = "release"]
    /\ loc' = [loc EXCEPT ![t].ret = "KeyError"]
ghostVars == <<seqVars, calls, shadow, overlap, otherVars>>

ConcInit ==
    /\ max_size \in 1..MaxSize
    /\ ttl \in 1..MaxTtl
    /\ cache = << >>
    /\ access_times = EmptyDict
    /\ hits = 0
    /\ misses = 0
    /\ evictions = 0
    /\ now = 0
    /\ last = Call("init", None, None, None)
    /\ ops = 0
    /\ gets = 0
    /\ hist = [k \in Keys |-> Absent("never")]
    /\ touchOrder = << >>
    /\ pc = [t \in Threads |-> "idle"]
    /\ loc = [t \in Threads |-> NoLocals]
    /\ lock = NoThread
    /\ calls = [t \in Threads |-> 0]
    /\ shadow = LRUCache(max_size, ttl)
    /\ overlap = FALSE
    /\ Idle({"cache", "threads"})

\* a thread calls get, put or cleanup_expired
Invoke(t) ==
    /\ pc[t] = "idle"
    /\ calls[1] + calls[2] < MaxCalls
    /\ \E op \in {"get", "put", "cleanup_expired"}, key \in {"k1", "k2"},
          value \in Values :
          /\ op = "cleanup_expired" => key = "k1"
          /\ op # "put" => value = "v1"
          /\ loc' = [loc EXCEPT ![t] =
                       [NoLocals EXCEPT !.op = op,
                                        !.key = IF op = "cleanup_expired" THEN None ELSE key,
                                        !.value = IF op = "put" THEN value ELSE None]]
    /\ Goto(t, "acquire")
    /\ calls' = [calls EXCEPT ![t] = calls[t] + 1]
    /\ overlap' = (overlap \/ lock \notin {NoThread, t})
    /\ UNCHANGED <<cacheVars, now, seqVars, lock, shadow, otherVars>>

\* with self.lock: (lines 39, 59, 111)
Acquire(t) ==
    /\ pc[t] = "acquire"
    /\ CanAcquire(lock, t)
    /\ lock' = t
    /\ Goto(t, CASE loc[t].op = "get" -> "g40"
                 [] loc[t].op = "put" -> "p60"
                 [] OTHER -> "c112")
    /\ UNCHANGED <<cacheVars, now, loc, ghostVars>>

\* the end of the with block: the lock is released and the call returns
Release(t) ==
    /\ pc[t] = "release"
    /\ lock' = NoThread
    /\ shadow' = CASE loc[t].op = "get" ->
                        get(shadow, loc[t].key, loc[t].t1, loc[t].t2).obj
                   [] loc[t].op = "put" ->
                        put(shadow, loc[t].key, loc[t].value, loc[t].t1)
                   [] OTHER -> cleanup_expired(shadow, loc[t].t1).obj
    /\ Goto(t, "idle")
    /\ loc' = [loc EXCEPT ![t] = NoLocals]
    /\ UNCHANGED <<cacheVars, now, seqVars, calls, overlap, otherVars>>

\* get, lines 40-55
GetStep(t) ==
    LET key == loc[t].key IN
    \/ /\ pc[t] = "g40"
       /\ Goto(t, IF key \in KeysOf(cache) THEN "g42" ELSE "g54")
       /\ UNCHANGED <<cacheVars, now, loc, lock, ghostVars>>
    \/ /\ pc[t] = "g42"
       /\ IF key \notin DOMAIN access_times
          THEN Raise(t)
          ELSE IF now - access_times[key] > ttl
               THEN /\ Goto(t, "rm80")
                    /\ loc' = [loc EXCEPT ![t].t1 = now, ![t].rm = key, ![t].back = "g44"]
               ELSE /\ Goto(t, "g48")
                    /\ loc' = [loc EXCEPT ![t].t1 = now]
       /\ UNCHANGED <<cacheVars, now, lock, ghostVars>>
    \/ /\ pc[t] = "g44"
       /\ misses' = misses + 1
       /\ Goto(t, "release")
       /\ UNCHANGED <<max_size, ttl, cache, access_times, hits, evictions, now, loc,
                      lock, ghostVars>>
    \/ /\ pc[t] = "g48"
       /\ IF key \notin KeysOf(cache)
          THEN Raise(t) /\ UNCHANGED cache
          ELSE /\ cache' = OdPop(cache, key)
               /\ loc' = [loc EXCEPT ![t].ret = OdGet(cache, key)]
               /\ Goto(t, "g49")
       /\ UNCHANGED <<max_size, ttl, access_times, hits, misses, evictions, now,
                      lock, ghostVars>>
    \/ /\ pc[t] = "g49"
       /\ cache' = OdSet(cache, key, loc[t].ret)
       /\ Goto(t, "g50")
       /\ UNCHANGED <<max_size, ttl, access_times, hits, misses, evictions, now, loc,
                      lock, ghostVars>>
    \/ /\ pc[t] = "g50"
       /\ access_times' = DictSet(access_times, key, now)
       /\ loc' = [loc EXCEPT ![t].t2 = now]
       /\ Goto(t, "g51")
       /\ UNCHANGED <<max_size, ttl, cache, hits, misses, evictions, now, lock,
                      ghostVars>>
    \/ /\ pc[t] = "g51"
       /\ hits' = hits + 1
       /\ Goto(t, "release")
       /\ UNCHANGED <<max_size, ttl, cache, access_times, misses, evictions, now, loc,
                      lock, ghostVars>>
    \/ /\ pc[t] = "g54"
       /\ misses' = misses + 1
       /\ Goto(t, "release")
       /\ UNCHANGED <<max_size, ttl, cache, access_times, hits, evictions, now, loc,
                      lock, ghostVars>>

\* put, lines 60-76
PutStep(t) ==
    LET key == loc[t].key IN
    \/ /\ pc[t] = "p60"
       /\ loc' = [loc EXCEPT ![t].t1 = now]
       /\ Goto(t, "p62")
       /\ UNCHANGED <<cacheVars, now, lock, ghostVars>>
    \/ /\ pc[t] = "p62"
       /\ Goto(t, IF key \in KeysOf(cache) THEN "p64" ELSE "p69")
       /\ UNCHANGED <<cacheVars, now, loc, lock, ghostVars>>
    \/ /\ pc[t] = "p64"
       /\ IF key \notin KeysOf(cache)
          THEN Raise(t) /\ UNCHANGED cache
          ELSE cache' = OdPop(cache, key) /\ Goto(t, "p65") /\ UNCHANGED loc
       /\ UNCHANGED <<max_size, ttl, access_times, hits, misses, evictions, now,
                      lock, ghostVars>>
    \/ /\ pc[t] \in {"p65", "p75"}
       /\ cache' = OdSet(cache, key, loc[t].value)
       /\ Goto(t, "p66")
       /\ UNCHANGED <<max_size, ttl, access_times, hits, misses, evictions, now, loc,
                      lock, ghostVars>>
    \/ /\ pc[t] = "p66"
       /\ access_times' = DictSet(access_times, key, loc[t].t1)
       /\ Goto(t, "release")
       /\ UNCHANGED <<max_size, ttl, cache, hits, misses, evictions, now, loc, lock,
                      ghostVars>>
    \/ /\ pc[t] = "p69"
       /\ Goto(t, IF Len(cache) >= max_size THEN "p71" ELSE "p75")
       /\ UNCHANGED <<cacheVars, now, loc, lock, ghostVars>>
    \/ /\ pc[t] = "p71"
       /\ IF cache = << >>
          THEN Raise(t)
          ELSE /\ loc' = [loc EXCEPT ![t].rm = cache[1].key, ![t].back = "p73"]
               /\ Goto(t, "rm80")
       /\ UNCHANGED <<cacheVars, now, lock, ghostVars>>
    \/ /\ pc[t] = "p73"
       /\ evictions' = evictions + 1
       /\ Goto(t, "p75")
       /\ UNCHANGED <<max_size, ttl, cache, access_times, hits, misses, now, loc,
                      lock, ghostVars>>

\* _remove, lines 80-82, called from get, put and cleanup_expired
RemoveStep(t) ==
    LET key == loc[t].rm IN
    \/ /\ pc[t] = "rm80"
       /\ Goto(t, IF key \in KeysOf(cache) THEN "rm81" ELSE loc[t].back)
       /\ UNCHANGED <<cacheVars, now, loc, lock, ghostVars>>
    \/ /\ pc[t] = "rm81"
       /\ IF key \notin KeysOf(cache)
          THEN Raise(t) /\ UNCHANGED cache
          ELSE cache' = OdPop(cache, key) /\ Goto(t, "rm82") /\ UNCHANGED loc
       /\ UNCHANGED <<max_size, ttl, access_times, hits, misses, evictions, now,
                      lock, ghostVars>>
    \/ /\ pc[t] = "rm82"
       /\ IF key \notin DOMAIN access_times
          THEN Raise(t) /\ UNCHANGED access_times
          ELSE /\ access_times' = DictDel(access_times, key)
               /\ Goto(t, loc[t].back)
               /\ UNCHANGED loc
       /\ UNCHANGED <<max_size, ttl, cache, hits, misses, evictions, now, lock,
                      ghostVars>>

\* cleanup_expired, lines 112-121
CleanupStep(t) ==
    \/ /\ pc[t] = "c112"
       /\ loc' = [loc EXCEPT ![t].t1 = now]
       /\ Goto(t, "c113")
       /\ UNCHANGED <<cacheVars, now, lock, ghostVars>>
    \/ /\ pc[t] = "c113"
       /\ loc' = [loc EXCEPT ![t].expired_keys = ExpiredKeys(self, loc[t].t1),
                             ![t].ret = Cardinality(ExpiredKeys(self, loc[t].t1))]
       /\ Goto(t, "c118")
       /\ UNCHANGED <<cacheVars, now, lock, ghostVars>>
    \/ /\ pc[t] = "c118"
       /\ IF loc[t].expired_keys = {}
          THEN Goto(t, "release") /\ UNCHANGED loc
          ELSE LET key == CHOOSE k \in loc[t].expired_keys : TRUE
               IN /\ loc' = [loc EXCEPT ![t].expired_keys = loc[t].expired_keys \ {key},
                                        ![t].rm = key, ![t].back = "c118"]
                  /\ Goto(t, "rm80")
       /\ UNCHANGED <<cacheVars, now, lock, ghostVars>>

\* time passes; the clock is read at lines 42, 50, 60 and 112 only, so its
\* advance is taken when a thread is about to read it
ConcTick ==
    /\ now < MaxTime
    /\ \E t \in Threads : pc[t] \in {"g42", "g50", "p60", "c112"}
    /\ now' = now + 1
    /\ UNCHANGED <<cacheVars, seqVars, concVars, otherVars>>

ConcNext ==
    \/ \E t \in Threads : Invoke(t)
    \/ \E t \in Threads : Acquire(t)
    \/ \E t \in Threads : GetStep(t)
    \/ \E t \in Threads : PutStep(t)
    \/ \E t \in Threads : RemoveStep(t)
    \/ \E t \in Threads : CleanupStep(t)
    \/ \E t \in Threads : Release(t)
    \/ ConcTick

SpecConc == ConcInit /\ [][ConcNext]_vars

(***************************************************************************)
(* BooleanSearchEngine.  A string is a sequence of characters; a query is  *)
(* the sequence of its whitespace-separated words (query.split()).         *)
(***************************************************************************)
MaxQueryLen == 5    \* words in a boolean query

\* self.operators
operators ==
    {<<"A", "N", "D">>, <<"O", "R">>, <<"N", "O", "T">>, <<"(">>, <<")">>}

\* str.lower, character by character
lower(w) ==
    LET LowerChar(c) ==
            CASE c = "A" -> "a" [] c = "B" -> "b" [] c = "C" -> "c" [] c = "D" -> "d"
              [] c = "E" -> "e" [] c = "F" -> "f" [] c = "G" -> "g" [] c = "H" -> "h"
              [] c = "I" -> "i" [] c = "J" -> "j" [] c = "K" -> "k" [] c = "L" -> "l"
              [] c = "M" -> "m" [] c = "N" -> "n" [] c = "O" -> "o" [] c = "P" -> "p"
              [] c = "Q" -> "q" [] c = "R" -> "r" [] c = "S" -> "s" [] c = "T" -> "t"
              [] c = "U" -> "u" [] c = "V" -> "v" [] c = "W" -> "w" [] c = "X" -> "x"
              [] c = "Y" -> "y" [] c = "Z" -> "z"
              [] OTHER -> c
    IN [i \in 1..Len(w) |-> LowerChar(w[i])]

\* replace('(', ' ( ').replace(')', ' ) ') and split(), on one word:
\* done are the pieces found so far, cur the piece being read
RECURSIVE SplitParens(_, _, _)
SplitParens(w, done, cur) ==
    LET flush == IF cur = << >> THEN done ELSE Append(done, cur)
    IN IF w = << >> THEN flush
       ELSE IF Head(w) \in {"(", ")"}
            THEN SplitParens(Tail(w), Append(flush, <<Head(w)>>), << >>)
            ELSE SplitParens(Tail(w), done, Append(cur, Head(w)))

RECURSIVE _tokenize_boolean_query(_)
_tokenize_boolean_query(words) ==
    IF words = << >> THEN << >>
    ELSE LET \* str.upper, character by character
             UpperChar(c) ==
                 CASE c = "a" -> "A" [] c = "b" -> "B" [] c = "c" -> "C" [] c = "d" -> "D"
                   [] c = "e" -> "E" [] c = "f" -> "F" [] c = "g" -> "G" [] c = "h" -> "H"
                   [] c = "i" -> "I" [] c = "j" -> "J" [] c = "k" -> "K" [] c = "l" -> "L"
                   [] c = "m" -> "M" [] c = "n" -> "N" [] c = "o" -> "O" [] c = "p" -> "P"
                   [] c = "q" -> "Q" [] c = "r" -> "R" [] c = "s" -> "S" [] c = "t" -> "T"
                   [] c = "u" -> "U" [] c = "v" -> "V" [] c = "w" -> "W" [] c = "x" -> "X"
                   [] c = "y" -> "Y" [] c = "z" -> "Z"
                   [] OTHER -> c
             upper(w) == [i \in 1..Len(w) |-> UpperChar(w[i])]
             pieces == SplitParens(upper(Head(words)), << >>, << >>)
             Token(piece) ==
                 IF piece \in operators THEN piece ELSE lower(piece)
         IN [i \in 1..Len(pieces) |-> Token(pieces[i])]
            \o _tokenize_boolean_query(Tail(words))

\* the expression tree
Term(v) == [type |-> "term", value |-> v]
And(l, r) == [type |-> "and", left |-> l, right |-> r]
Or(l, r) == [type |-> "or", left |-> l, right |-> r]
Not(e) == [type |-> "not", operand |-> e]
Empty == [type |-> "empty"]

\* a parse function returns (expression, pos) or raises ValueError
Parsed(e, p) == [ok |-> TRUE, expr |-> e, pos |-> p]
ValueError(msg) == [ok |-> FALSE, error |-> msg]
At(toks, pos) == toks[pos + 1]

RECURSIVE _parse_or_expression(_, _), OrLoop(_, _, _),
          _parse_and_expression(_, _), AndLoop(_, _, _),
          _parse_not_expression(_, _), _parse_primary_expression(_, _)

_parse_primary_expression(toks, pos) ==
    IF pos >= Len(toks) THEN ValueError(<<"Unexpected end of expression">>)
    ELSE IF At(toks, pos) = <<"(">>
    THEN LET r == _parse_or_expression(toks, pos + 1)
         IN IF ~r.ok THEN r
            ELSE IF r.pos >= Len(toks) \/ At(toks, r.pos) # <<")">>
                 THEN ValueError(<<"Missing closing parenthesis">>)
                 ELSE Parsed(r.expr, r.pos + 1)
    ELSE IF At(toks, pos) \notin operators
    THEN Parsed(Term(At(toks, pos)), pos + 1)
    ELSE ValueError(<<"Unexpected token: ", At(toks, pos)>>)

\* NOT taken over the whole conjunction that follows
_parse_not_expression_Loose(toks, pos) ==
    IF pos < Len(toks) /\ At(toks, pos) = <<"N", "O", "T">>
    THEN LET r == _parse_and_expression(toks, pos + 1)
         IN IF r.ok THEN Parsed(Not(r.expr), r.pos) ELSE r
    ELSE _parse_primary_expression(toks, pos)

_parse_not_expression(toks, pos) ==
    IF pos < Len(toks) /\ At(toks, pos) = <<"N", "O", "T">>
    THEN LET r == _parse_primary_expression(toks, pos + 1)
         IN IF r.ok THEN Parsed(Not(r.expr), r.pos) ELSE r
    ELSE _parse_primary_expression(toks, pos)

\* the while loop of _parse_and_expression, lines 241-244
AndLoop(toks, left, pos) ==
    IF pos < Len(toks) /\ At(toks, pos) = <<"A", "N", "D">>
    THEN LET r == _parse_not_expression(toks, pos + 1)
         IN IF r.ok THEN AndLoop(toks, And(left, r.expr), r.pos) ELSE r
    ELSE Parsed(left, pos)

_parse_and_expression(toks, pos) ==
    LET l == _parse_not_expression(toks, pos)
    IN IF l.ok THEN AndLoop(toks, l.expr, l.pos) ELSE l

\* the while loop of _parse_or_expression, lines 230-233
OrLoop(toks, left, pos) ==
    IF pos < Len(toks) /\ At(toks, pos) = <<"O", "R">>
    THEN LET r == _parse_and_expression(toks, pos + 1)
         IN IF r.ok THEN OrLoop(toks, Or(left, r.expr), r.pos) ELSE r
    ELSE Parsed(left, pos)

_parse_or_expression(toks, pos) ==
    LET l == _parse_and_expression(toks, pos)
    IN IF l.ok THEN OrLoop(toks, l.expr, l.pos) ELSE l

\* [0] of the pair: the position reached is dropped
_parse_expression(toks) ==
    IF toks = << >> THEN Parsed(Empty, 0)
    ELSE LET r == _parse_or_expression(toks, 0)
         IN IF r.ok THEN Parsed(r.expr, 0) ELSE r

\* the tokens are given as the fallback terms
FallbackTerms_Tokens(q, toks) == toks

\* query.split(), line 190
FallbackTerms(q, toks) == q

parse_boolean_query(q) ==
    LET toks == _tokenize_boolean_query(q)
        r == _parse_expression(toks)
    IN IF r.ok
       THEN [success |-> TRUE, expression |-> r.expr, original_query |-> q,
             tokens |-> toks]
       ELSE [success |-> FALSE, error |-> r.error,
             fallback_terms |-> FallbackTerms(q, toks)]

\* the documents, and the maps from terms to sets of documents
Docs == {"p1", "p2"}
MatchTerms == {<<"a">>, <<"b">>}

\* NOT taken relative to the whole collection
AllProducts_Collection(pm) == Docs

\* lines 305-307
AllProducts(pm) == UNION {pm[t] : t \in DOMAIN pm}

\* d.get(k, default)
DictGet(d, k, default) == IF k \in DOMAIN d THEN d[k] ELSE default

RECURSIVE evaluate_boolean_expression(_, _)
evaluate_boolean_expression(expr, pm) ==
    CASE expr.type = "term" -> DictGet(pm, expr.value, {})
      [] expr.type = "and" ->
            evaluate_boolean_expression(expr.left, pm)
              \cap evaluate_boolean_expression(expr.right, pm)
      [] expr.type = "or" ->
            evaluate_boolean_expression(expr.left, pm)
              \cup evaluate_boolean_expression(expr.right, pm)
      [] expr.type = "not" ->
            AllProducts(pm) \ evaluate_boolean_expression(expr.operand, pm)
      [] OTHER -> {}

\* the queries of up to n words
RECURSIVE Queries(_)
Queries(n) ==
    IF n = 0 THEN {<< >>}
    ELSE LET \* the words a query is made of
             RawWords ==
                 {<<"a">>, <<"B">>, <<"a", "n", "d">>, <<"O", "R">>,
                  <<"N", "o", "t">>, <<"(">>, <<")">>, <<"(", "a">>}
             shorter == Queries(n - 1)
         IN shorter \cup {Append(q, w) : q \in {x \in shorter : Len(x) = n - 1},
                                         w \in RawWords}

BoolInit ==
    /\ Idle({"bool"})
    /\ query \in Queries(MaxQueryLen)
    /\ tokens = << >>
    /\ parsed = [success |-> FALSE]
    /\ bpc = "start"

\* parse_boolean_query(query)
ParseBooleanQuery ==
    /\ bpc = "start"
    /\ tokens' = _tokenize_boolean_query(query)
    /\ parsed' = parse_boolean_query(query)
    /\ bpc' = "parsed"
    /\ UNCHANGED <<cacheVars, now, seqVars, concVars, query, evalVars,
                   engVars, facetVars, fuzzyVars, realityVars>>

BoolNext == ParseBooleanQuery

SpecBool == BoolInit /\ [][BoolNext]_vars

(***************************************************************************)
(* evaluate_boolean_expression on the expression trees with at most        *)
(* MaxTreeOps operators and every map from terms to sets of documents.     *)
(***************************************************************************)
MaxTreeOps == 3     \* operators in an expression tree

\* the expression trees with up to n operators
Trees(n) ==
    LET RECURSIVE TreesOfSize(_)
        TreesOfSize(k) ==
            IF k = 0 THEN {Term(v) : v \in MatchTerms}
            ELSE {Not(e) : e \in TreesOfSize(k - 1)}
                 \cup UNION {{And(l, r) : l \in TreesOfSize(i),
                                          r \in TreesOfSize(k - 1 - i)} :
                             i \in 0..(k - 1)}
                 \cup UNION {{Or(l, r) : l \in TreesOfSize(i),
                                         r \in TreesOfSize(k - 1 - i)} :
                             i \in 0..(k - 1)}
    IN {Empty} \cup UNION {TreesOfSize(i) : i \in 0..n}

EvalInit ==
    /\ Idle({"eval"})
    /\ expression \in Trees(MaxTreeOps)
    /\ product_matches \in UNION {[ks -> SUBSET Docs] : ks \in SUBSET MatchTerms}
    /\ given = product_matches
    /\ result = {}
    /\ epc = "start"

\* evaluate_boolean_expression(expression, product_matches)
EvaluateBooleanExpression ==
    /\ epc = "start"
    /\ result' = evaluate_boolean_expression(expression, product_matches)
    /\ epc' = "evaluated"
    /\ UNCHANGED <<cacheVars, now, seqVars, concVars, boolVars, expression,
                   product_matches, given, engVars, facetVars,
                   fuzzyVars, realityVars>>

EvalNext == EvaluateBooleanExpression

SpecEval == EvalInit /\ [][EvalNext]_vars

(***************************************************************************)
(* Claims about the sequentially used LRUCache (specification Spec).       *)
(***************************************************************************)
IsGet == last'.op = "get" /\ gets' = gets + 1
IsPut == last'.op = "put" /\ ops' = ops + 1
IsCleanup == last'.op = "cleanup_expired" /\ ops' = ops + 1

\* the stored keys whose latest put or successful get is more than ttl ago
PastTtl == {k \in Keys : hist[k].why = "live" /\ now - hist[k].at > ttl}

\* C1: after any sequence of get, put, cleanup_expired and clear calls the
\* cache holds at most max_size entries.
C1_SizeAtMostMaxSize == size(self) <= max_size

C1_Witness == Len(cache) = max_size /\ evictions >= 1 /\ last.op = "put"

\* C2: a put of a new key into a full cache removes exactly one entry, the
\* one whose latest put or successful get is the oldest among the stored
\* entries; evictions grows by 1; every other entry keeps its value.
C2_EvictsLeastRecentlyUsed ==
    [][(IsPut /\ last'.key \notin KeysOf(cache) /\ Len(cache) = max_size) =>
        /\ Len(touchOrder) >= 1
        /\ KeysOf(cache) \ KeysOf(cache') = {touchOrder[1]}
        /\ KeysOf(cache') = (KeysOf(cache) \ {touchOrder[1]}) \cup {last'.key}
        /\ evictions' = evictions + 1
        /\ \A k \in KeysOf(cache) \ {touchOrder[1]} :
              OdGet(cache', k) = OdGet(cache, k)
        /\ OdGet(cache', last'.key) = last'.value]_vars

C2_Witness ==
    /\ max_size = 2 /\ ops = 4 /\ hits = 1 /\ evictions = 1
    /\ last.op = "put" /\ last.key = "k3"
    /\ hist["k2"].why = "evicted"
    /\ KeysOf(cache) = {"k1", "k3"}

\* C3: get on a present, unexpired key returns the value of its latest put,
\* makes it the most recently used entry and resets its access time; get on
\* a key never put, or evicted, expired or cleared since, returns None.
C3_GetReturnsLatestPut ==
    [][IsGet =>
        LET k == last'.key
        IN IF hist[k].why = "live" /\ k \notin PastTtl
           THEN /\ last'.ret = hist[k].val
                /\ cache'[Len(cache')].key = k
                /\ access_times'[k] = now'
                /\ hist'[k].val = hist[k].val
           ELSE last'.ret = None]_vars

C3_Witness ==
    /\ last.op = "get" /\ last.ret = "v2" /\ hist[last.key].val = "v2"
    /\ Len(cache) = 2 /\ cache[2].key = last.key /\ now > 0

\* C4: get on an entry whose last access is more than ttl ago returns None,
\* removes the entry (size decreases by one), and records a miss and no hit.
C4_ExpiredGetRemoves ==
    [][(IsGet /\ last'.key \in PastTtl) =>
        /\ last'.ret = None
        /\ last'.key \in KeysOf(cache)
        /\ last'.key \notin KeysOf(cache')
        /\ Len(cache') = Len(cache) - 1
        /\ misses' = misses + 1
        /\ hits' = hits]_vars

C4_Witness ==
    /\ ops = 2 /\ last.op = "get" /\ last.ret = None
    /\ hist[last.key].why = "expired" /\ misses = 1 /\ hits = 0

\* C5: cleanup_expired removes exactly the entries whose last access is more
\* than ttl ago, keeps every other entry with its value, position and
\* timestamp, and returns the number of entries removed.
C5_CleanupRemovesExactlyExpired ==
    [][IsCleanup =>
        /\ PastTtl \subseteq KeysOf(cache)
        /\ cache' = SelectSeq(cache, LAMBDA e : e.key \notin PastTtl)
        /\ DOMAIN access_times' = KeysOf(cache')
        /\ \A k \in KeysOf(cache') : access_times'[k] = access_times[k]
        /\ last'.ret = Cardinality(PastTtl)
        /\ last'.ret = Len(cache) - Len(cache')]_vars

C5_Witness ==
    /\ last.op = "cleanup_expired" /\ last.ret >= 1 /\ Len(cache) >= 1
    /\ gets = 0

\* C6: hits + misses is the number of get calls; a get adds one to hits when
\* it returns a value and one to misses when it returns None; no other call
\* changes either counter; hit_ratio is hits / (hits + misses), or 0 when no
\* get was made.
C6_HitsPlusMissesCountGets ==
    [][/\ IsGet => IF last'.ret # None
                   THEN hits' = hits + 1 /\ misses' = misses
                   ELSE hits' = hits /\ misses' = misses + 1
       /\ ~IsGet => hits' = hits /\ misses' = misses
       /\ hits' + misses' = gets'
       /\ LET ratio == get_stats(self).hit_ratio
          IN (IF gets = 0 THEN ratio.num = 0
              ELSE ratio.num * gets = hits * ratio.den /\ ratio.den > 0)']_vars

C6_Witness ==
    /\ hits = 1 /\ misses = 1 /\ last.op \in {"put", "cleanup_expired", "clear"}
    /\ get_stats(self).hit_ratio = [num |-> 1, den |-> 2]

\* C25: put on a key already in the cache replaces its value, resets its
\* last-access time and makes it the most recently used entry; it evicts no
\* entry, keeps every other entry with its value and timestamp, and changes
\* neither the size nor the eviction counter, also when the cache is full.
C25_PutOnStoredKeyUpdatesInPlace ==
    [][(IsPut /\ last'.key \in KeysOf(cache)) =>
        LET k == last'.key
        IN /\ OdGet(cache', k) = last'.value
           /\ access_times'[k] = now'
           /\ cache'[Len(cache')].key = k
           /\ KeysOf(cache') = KeysOf(cache)
           /\ DOMAIN access_times' = DOMAIN access_times
           /\ \A o \in KeysOf(cache) \ {k} :
                 /\ OdGet(cache', o) = OdGet(cache, o)
                 /\ access_times'[o] = access_times[o]
           /\ size(self') = size(self)
           /\ evictions' = evictions]_vars

\* a put, a hit and a second put on a cache of one entry: the second put
\* found its key stored and the cache full
C25_Witness ==
    /\ max_size = 1 /\ ops = 3 /\ gets = 1 /\ hits = 1 /\ evictions = 0
    /\ last.op = "put" /\ last.value = "v2"
    /\ cache = <<[key |-> last.key, value |-> "v2"]>>

(***************************************************************************)
(* Claims about the cache under threads (specification SpecConc).          *)
(***************************************************************************)
\* C7: with threads calling get, put and cleanup_expired in any
\* interleaving, whenever no call is inside its locked body the key set of
\* the value store equals that of the access-time table, the size is at most
\* max_size, and the cache is the one the calls give when run one after the
\* other in the order they release the lock.
C7_CallsAreAtomic ==
    lock = NoThread =>
        /\ KeysOf(cache) = DOMAIN access_times
        /\ Len(cache) <= max_size
        /\ self = shadow
        /\ \A t \in Threads : pc[t] \in {"idle", "acquire"}

C7_Witness ==
    /\ lock = NoThread
    /\ overlap
    /\ \A t \in Threads : pc[t] = "idle" /\ calls[t] >= 1
    /\ calls[1] + calls[2] = MaxCalls
    /\ evictions >= 1

(***************************************************************************)
(* Claims about evaluate_boolean_expression (specification SpecEval).      *)
(***************************************************************************)
\* document d satisfies expression e under the term matches pm
RECURSIVE Satisfies(_, _, _)
Satisfies(d, e, pm) ==
    CASE e.type = "term" -> e.value \in DOMAIN pm /\ d \in pm[e.value]
      [] e.type = "and" -> Satisfies(d, e.left, pm) /\ Satisfies(d, e.right, pm)
      [] e.type = "or" -> Satisfies(d, e.left, pm) \/ Satisfies(d, e.right, pm)
      [] e.type = "not" -> /\ \E t \in DOMAIN pm : d \in pm[t]
                           /\ ~Satisfies(d, e.operand, pm)
      [] OTHER -> FALSE

\* C8: evaluate_boolean_expression returns a term's match set (empty when
\* the term is no key of the map), the intersection for And, the union for
\* Or, and for Not the union of all match sets of the map minus the operand's
\* result; the map is left unchanged.
C8_EvaluateIsSetSemantics ==
    epc = "evaluated" =>
        /\ result = {d \in Docs : Satisfies(d, expression, given)}
        /\ product_matches = given

C8_Witness ==
    /\ epc = "evaluated"
    /\ expression = And(Not(Term(<<"a">>)), Or(Term(<<"b">>), Term(<<"a">>)))
    /\ given = [t \in {<<"b">>} |-> {"p1", "p2"}]
    /\ result = {"p1", "p2"}

(***************************************************************************)
(* Claims about parse_boolean_query (specification SpecBool).              *)
(***************************************************************************)
\* The grammar, read as a definition of the tree of a token sequence:
\*   Or := And ('OR' And)*, And := Not ('AND' Not)*,
\*   Not := 'NOT' Primary | Primary, Primary := '(' Or ')' | TERM
\* with operators of one level grouped from the left.
Invalid == [type |-> "invalid"]
Depth(ts, i) ==
    Cardinality({j \in 1..i : ts[j] = <<"(">>})
      - Cardinality({j \in 1..i : ts[j] = <<")">>})
\* position i is outside every parenthesis
Outside(ts, i) == Depth(ts, i - 1) = 0 /\ \A j \in 1..(i - 1) : Depth(ts, j) >= 0
OutsideAt(ts, op) == {i \in 1..Len(ts) : ts[i] = op /\ Outside(ts, i)}
Last(S) == CHOOSE x \in S : \A y \in S : y <= x
Both(l, r, node) == IF l = Invalid \/ r = Invalid THEN Invalid ELSE node

RECURSIVE TreeOfOr(_), TreeOfAnd(_), TreeOfNot(_), TreeOfPrimary(_)
TreeOfPrimary(ts) ==
    IF Len(ts) = 1 /\ ts[1] \notin operators THEN Term(ts[1])
    ELSE IF /\ Len(ts) >= 2
            /\ ts[1] = <<"(">>
            /\ ts[Len(ts)] = <<")">>
            /\ Depth(ts, Len(ts)) = 0
            /\ \A j \in 1..(Len(ts) - 1) : Depth(ts, j) >= 1
         THEN TreeOfOr(SubSeq(ts, 2, Len(ts) - 1))
         ELSE Invalid
TreeOfNot(ts) ==
    IF ts # << >> /\ ts[1] = <<"N", "O", "T">>
    THEN LET e == TreeOfPrimary(Tail(ts)) IN Both(e, e, Not(e))
    ELSE TreeOfPrimary(ts)
TreeOfAnd(ts) ==
    LET at == OutsideAt(ts, <<"A", "N", "D">>)
    IN IF at = {} THEN TreeOfNot(ts)
       ELSE LET l == TreeOfAnd(SubSeq(ts, 1, Last(at) - 1))
                r == TreeOfNot(SubSeq(ts, Last(at) + 1, Len(ts)))
            IN Both(l, r, And(l, r))
TreeOfOr(ts) ==
    LET at == OutsideAt(ts, <<"O", "R">>)
    IN IF at = {} THEN TreeOfAnd(ts)
       ELSE LET l == TreeOfOr(SubSeq(ts, 1, Last(at) - 1))
                r == TreeOfAnd(SubSeq(ts, Last(at) + 1, Len(ts)))
            IN Both(l, r, Or(l, r))

TermA == Term(<<"a">>)
TermB == Term(<<"b">>)
W(str) == CASE str = "a" -> <<"a">> [] str = "B" -> <<"B">>
            [] str = "and" -> <<"a", "n", "d">> [] str = "OR" -> <<"O", "R">>
            [] str = "Not" -> <<"N", "o", "t">> [] str = "(a" -> <<"(", "a">>
            [] OTHER -> <<str>>

\* C9: a token sequence that conforms to the grammar is parsed successfully
\* into the tree in which NOT binds tighter than AND, AND tighter than OR,
\* operators of one level associate to the left and a parenthesised group is
\* one operand; keywords are recognised in any case, terms are lower-cased.
C9_ParseFollowsGrammar ==
    bpc = "parsed" =>
        /\ \A i \in 1..Len(tokens) :
              \/ tokens[i] \in operators
              \/ /\ tokens[i] = lower(tokens[i])
                 /\ \A j \in 1..Len(tokens[i]) : tokens[i][j] \notin {"(", ")"}
        /\ TreeOfOr(tokens) # Invalid =>
              /\ parsed.success
              /\ parsed.expression = TreeOfOr(tokens)
              /\ parsed.tokens = tokens
        /\ query = <<W("a"), W("OR"), W("B"), W("and"), W("a")>> =>
              parsed.success /\ parsed.expression = Or(TermA, And(TermB, TermA))
        /\ query = <<W("a"), W("and"), W("B"), W("and"), W("a")>> =>
              parsed.success /\ parsed.expression = And(And(TermA, TermB), TermA)
        /\ query = <<W("Not"), W("a"), W("and"), W("B")>> =>
              parsed.success /\ parsed.expression = And(Not(TermA), TermB)
        /\ query = <<W("Not"), W("(a"), W("OR"), W("B"), W(")")>> =>
              parsed.success /\ parsed.expression = Not(Or(TermA, TermB))

C9_Witness ==
    /\ bpc = "parsed"
    /\ query = <<W("a"), W("OR"), W("B"), W("and"), W("a")>>
    /\ tokens = <<<<"a">>, <<"O", "R">>, <<"b">>, <<"A", "N", "D">>, <<"a">>>>
    /\ parsed.success
    /\ parsed.expression = Or(TermA, And(TermB, TermA))

\* the characters of the query, and the number of opening parentheses in
\* them that no later closing parenthesis matches
RECURSIVE Chars(_)
Chars(q) == IF q = << >> THEN << >> ELSE Head(q) \o Chars(Tail(q))
RECURSIVE Unclosed(_, _)
Unclosed(cs, open) ==
    IF cs = << >> THEN open
    ELSE Unclosed(Tail(cs),
                  CASE Head(cs) = "(" -> open + 1
                    [] Head(cs) = ")" /\ open > 0 -> open - 1
                    [] OTHER -> open)

\* C10: parse_boolean_query on a query with an opening parenthesis that is
\* never closed reports a structured failure: success is false, an error
\* message is given and the fallback terms are the whitespace split of the
\* query.
C10_UnclosedParenthesisFails ==
    (bpc = "parsed" /\ Unclosed(Chars(query), 0) > 0) =>
        /\ ~parsed.success
        /\ "error" \in DOMAIN parsed
        /\ parsed.fallback_terms = query

\* the tokens left over once the grammar's start symbol has been parsed from
\* the first token on
Leftover(toks) ==
    LET r == _parse_or_expression(toks, 0)
    IN IF r.ok THEN SubSeq(toks, r.pos + 1, Len(toks)) ELSE << >>

\* C11: parse_boolean_query reports a failure whenever tokens remain after a
\* complete expression has been parsed (a second term with no operator before
\* it, a NOT after a term, an extra closing parenthesis); it never reports
\* success for a query of which only a prefix was parsed.
C11_LeftoverTokensFail ==
    (bpc = "parsed" /\ Leftover(tokens) # << >>) =>
        /\ ~parsed.success
        /\ "error" \in DOMAIN parsed

(***************************************************************************)
(* InfinityStonesSearchEngine.  A Python value passed as a query is a      *)
(* record with its type; a str carries its characters.                     *)
(***************************************************************************)
Str(cs) == [type |-> "str", value |-> cs]
IsStr(v) == v.type = "str"

\* str.strip(), str.split() and str.join(), the whitespace being the blank
strip(cs) ==
    LET RECURSIVE lstrip(_)
        lstrip(x) ==
            IF x # << >> /\ Head(x) \in {" "} THEN lstrip(Tail(x)) ELSE x
        RECURSIVE rstrip(_)
        rstrip(x) ==
            IF x # << >> /\ x[Len(x)] \in {" "}
            THEN rstrip(SubSeq(x, 1, Len(x) - 1))
            ELSE x
    IN rstrip(lstrip(cs))

split(cs) ==
    LET \* done are the words found so far, cur the word being read
        RECURSIVE SplitWords(_, _, _)
        SplitWords(rest, done, cur) ==
            IF rest = << >>
            THEN (IF cur = << >> THEN done ELSE Append(done, cur))
            ELSE IF Head(rest) \in {" "}
                 THEN SplitWords(Tail(rest),
                                 IF cur = << >> THEN done
                                 ELSE Append(done, cur),
                                 << >>)
                 ELSE SplitWords(Tail(rest), done, Append(cur, Head(rest)))
    IN SplitWords(cs, << >>, << >>)

RECURSIVE join(_, _)
join(sep, words) ==
    IF words = << >> THEN << >>
    ELSE IF Len(words) = 1 THEN words[1]
    ELSE words[1] \o sep \o join(sep, Tail(words))

\* cs[:n]
Prefix(cs, n) == SubSeq(cs, 1, Min(n, Len(cs)))

\* needle in cs
Contains(cs, needle) ==
    \E i \in 0..(Len(cs) - Len(needle)) :
        SubSeq(cs, i + 1, i + Len(needle)) = needle

MAX_QUERY_LENGTH == 500
Dangerous == {"<", ">", "\"", "'"}

\* a call returns a value or raises an exception
Returned(v) == [raised |-> FALSE, value |-> v, error |-> "none"]
Raised(e) == [raised |-> TRUE, value |-> << >>, error |-> e]

\* the emptiness test is not made on a str
validate_query_NoStripTest(v) ==
    IF ~IsStr(v) THEN Raised("ValidationError")
    ELSE Returned(SelectSeq(Prefix(strip(v.value), MAX_QUERY_LENGTH),
                            LAMBDA c : c \notin Dangerous))

validate_query(v) ==
    LET \* bool(v)
        Truthy(x) == IF IsStr(x) THEN x.value # << >> ELSE x.value # <<"0">>
    IN
    IF ~Truthy(v) \/ ~IsStr(v) THEN Raised("ValidationError")
    ELSE LET cleaned_query == strip(v.value)
         IN IF Len(cleaned_query) = 0 THEN Raised("ValidationError")
            ELSE Returned(SelectSeq(Prefix(cleaned_query, MAX_QUERY_LENGTH),
                                    LAMBDA c : c \notin Dangerous))

\* StoneType, in the order of self.stones
StoneOrder == <<"SPACE", "MIND", "REALITY", "POWER", "TIME", "SOUL">>

\* a SearchResult; stone_powers is a dict from stage tags to scores
SearchResult(pid, score, stone_powers) ==
    [product_id |-> pid, relevance_score |-> score,
     stone_powers |-> stone_powers]

\* Python objects: a list of SearchResult, or a dict (iterating it gives
\* its keys, which are str)
List(items) == [kind |-> "list", items |-> items]
\* a reference to a new object
NewRef(heap) ==
    <<"o1", "o2", "o3", "o4", "o5", "o6", "o7", "o8", "o9">>[
        Cardinality(DOMAIN heap) + 1]

SetOf(sq) == {sq[i] : i \in 1..Len(sq)}

\* len(x) and bool(x) of a list or dict
len(x) == Len(x.items)

\* what stone.search gives when the stage scores the documents (out is the
\* outcome of that scoring: it raises, or returns its list)
Scored(out) ==
    IF out.raises THEN Raised("Exception") ELSE Returned(List(out.results))

\* stone.search(cleaned_query) for the stage st.  product_data of a result
\* is the stored document itself, and the stages write into it: SpaceStone
\* (which MindStone, RealityStone and SoulStone call first) lines 792-793,
\* MindStone lines 988-996, PowerStone lines 1448-1449 and 1487-1488.  A
\* value that is no str is kept as a mark only.
StoneSearch(e, st, cleaned, out, t) ==
    LET mark == [type |-> "other", value |-> << >>]
        Entry(key, value) == [key |-> key, value |-> value]
        \* _generate_snippet for a document without Sales Package whose
        \* Name (its second value) is one short sentence
        _snippet(product) ==
            IF strip(product.values[2]) = << >>
            THEN Str(<<"N", "o", " ", "d", "e", "s", "c", "r", "i", "p", "t",
                       "i", "o", "n", " ", "a", "v", "a", "i", "l", "a", "b",
                       "l", "e">>)
            ELSE Str(strip(product.values[2]))
        StageWrites(product) ==
            CASE st = "MIND" ->
                    <<Entry("_shard_id", mark), Entry("_shard_hits", mark),
                      Entry("_highlighted", mark),
                      Entry("_snippet", _snippet(product)),
                      Entry("_facets", mark)>>
              [] st = "POWER" ->
                    <<Entry("_shard_id", mark),
                      Entry("_processing_time", mark),
                      Entry("_power_optimized", mark),
                      Entry("_query_processed", Str(cleaned))>>
              [] OTHER ->
                    <<Entry("_shard_id", mark), Entry("_shard_hits", mark)>>
        \* product[key] = value for every entry
        RECURSIVE WriteAll(_, _)
        WriteAll(od, entries) ==
            IF entries = << >> THEN od
            ELSE WriteAll(OdSet(od, Head(entries).key, Head(entries).value),
                          Tail(entries))
        Touched(product) ==
            IF \E i \in 1..Len(out.results) :
                  out.results[i].product_id = product.id
            THEN [product EXCEPT !.written = WriteAll(@, StageWrites(product))]
            ELSE product
        \* TimeStone.search, lines 1590-1593: a stored entry under the query
        \* itself is returned as the stage's results
        looked == get(e.search_cache, cleaned, t, t)
    IN IF st = "TIME"
       THEN [obj |-> [e EXCEPT !.search_cache = looked.obj],
             ret |-> IF looked.ret # None THEN Returned(e.heap[looked.ret])
                     ELSE Scored(out)]
       ELSE [obj |-> IF out.raises THEN e
                     ELSE [e EXCEPT !.products =
                              [i \in 1..Len(e.products) |->
                                  Touched(e.products[i])]],
             ret |-> Scored(out)]

\* lines 532-544: every selected stage is run, from stage i on; acc is
\* stone_results so far, in insertion order
RECURSIVE RunStones(_, _, _, _, _, _, _)
RECURSIVE StoneRan(_, _, _, _, _, _, _)
RunStones(e, cleaned, pref, outs, t, i, acc) ==
    IF i > Len(StoneOrder) THEN [obj |-> e, stone_results |-> acc]
    ELSE IF pref = None \/ StoneOrder[i] = pref
         THEN StoneRan(StoneSearch(e, StoneOrder[i], cleaned,
                                   outs[StoneOrder[i]], t),
                       cleaned, pref, outs, t, i, acc)
         ELSE RunStones(e, cleaned, pref, outs, t, i + 1, acc)
\* the loop after stage i has been searched, r being the stage's outcome
StoneRan(r, cleaned, pref, outs, t, i, acc) ==
    LET \* lines 537-544: the entry of stone_results for the stage st,
        \* whose search gave ret
        StoneResult(st, ret) ==
            IF ret.raised
            THEN [stone |-> st, results |-> List(<< >>), raised |-> TRUE]
            ELSE [stone |-> st, raised |-> FALSE,
                  results |-> IF len(ret.value) > 0 THEN ret.value
                              ELSE List(<< >>)]
    IN RunStones(r.obj, cleaned, pref, outs, t, i + 1,
                 Append(acc, StoneResult(StoneOrder[i], r.ret)))

\* PowerStone.combine_results.  The weights are in hundredths.
stone_weights ==
    [SPACE |-> 30, MIND |-> 10, REALITY |-> 20, POWER |-> 30, TIME |-> 5,
     SOUL |-> 5]

\* sorted(items, key=relevance_score, reverse=True): stable
RECURSIVE SortedDesc(_)
SortedDesc(items) ==
    IF items = << >> THEN << >>
    ELSE LET rest == SortedDesc(Tail(items))
             x == Head(items)
             before == SelectSeq(rest, LAMBDA y : y.relevance_score > x.relevance_score)
             after == SelectSeq(rest, LAMBDA y : y.relevance_score <= x.relevance_score)
         IN before \o <<x>> \o after

MaxCombined == 1000

\* the weight of the stage is added to the score, not multiplied with it
combine_results_Additive(stone_results, weights) ==
    LET RECURSIVE Contributions(_)
        Contributions(rest) ==
            IF rest = << >> THEN << >>
            ELSE LET h == Head(rest)
                 IN [i \in 1..len(h.results) |->
                        [product_id |-> h.results.items[i].product_id,
                         part |-> h.results.items[i].relevance_score
                                    + weights[h.stone],
                         stone_powers |-> h.results.items[i].stone_powers]]
                    \o Contributions(Tail(rest))
        RECURSIVE FirstSeen(_, _)
        FirstSeen(parts, seen) ==
            IF parts = << >> THEN seen
            ELSE FirstSeen(Tail(parts),
                           IF Head(parts).product_id \in SetOf(seen) THEN seen
                           ELSE Append(seen, Head(parts).product_id))
        RECURSIVE SumParts(_, _)
        SumParts(parts, pid) ==
            IF parts = << >> THEN 0
            ELSE (IF Head(parts).product_id = pid THEN Head(parts).part
                  ELSE 0)
                 + SumParts(Tail(parts), pid)
        RECURSIVE Updated(_, _, _)
        Updated(parts, pid, powers) ==
            IF parts = << >> THEN powers
            ELSE Updated(Tail(parts), pid,
                         IF Head(parts).product_id # pid THEN powers
                         ELSE [tag \in DOMAIN powers
                                         \cup DOMAIN Head(parts).stone_powers |->
                                  IF tag \in DOMAIN Head(parts).stone_powers
                                  THEN Head(parts).stone_powers[tag]
                                  ELSE powers[tag]])
        cs == Contributions(stone_results)
        ids == FirstSeen(cs, << >>)
        final_results ==
            [i \in 1..Len(ids) |->
                SearchResult(ids[i], SumParts(cs, ids[i]),
                             Updated(cs, ids[i], EmptyDict))]
    IN IF \E i \in 1..Len(stone_results) :
             /\ stone_results[i].results.kind # "list"
             /\ len(stone_results[i].results) > 0
       THEN Raised("AttributeError")
       ELSE Returned(Prefix(SortedDesc(final_results), MaxCombined))

\* combine_results, weights being the dict stone_weights of its lines
\* 1535-1542
combine_results(stone_results, weights) ==
    LET \* the (product_id, relevance_score * weight) pairs in the order
        \* the two loops visit them
        RECURSIVE Contributions(_)
        Contributions(rest) ==
            IF rest = << >> THEN << >>
            ELSE LET h == Head(rest)
                 IN [i \in 1..len(h.results) |->
                        [product_id |-> h.results.items[i].product_id,
                         part |-> h.results.items[i].relevance_score
                                    * weights[h.stone],
                         stone_powers |-> h.results.items[i].stone_powers]]
                    \o Contributions(Tail(rest))
        \* the keys of combined_scores, in insertion order
        RECURSIVE FirstSeen(_, _)
        FirstSeen(parts, seen) ==
            IF parts = << >> THEN seen
            ELSE FirstSeen(Tail(parts),
                           IF Head(parts).product_id \in SetOf(seen) THEN seen
                           ELSE Append(seen, Head(parts).product_id))
        \* combined_scores[pid]
        RECURSIVE SumParts(_, _)
        SumParts(parts, pid) ==
            IF parts = << >> THEN 0
            ELSE (IF Head(parts).product_id = pid THEN Head(parts).part
                  ELSE 0)
                 + SumParts(Tail(parts), pid)
        \* combined_scores[pid]['stone_powers'] after every
        \* update(result.stone_powers): a later value replaces an earlier
        \* one under the same tag
        RECURSIVE Updated(_, _, _)
        Updated(parts, pid, powers) ==
            IF parts = << >> THEN powers
            ELSE Updated(Tail(parts), pid,
                         IF Head(parts).product_id # pid THEN powers
                         ELSE [tag \in DOMAIN powers
                                         \cup DOMAIN Head(parts).stone_powers |->
                                  IF tag \in DOMAIN Head(parts).stone_powers
                                  THEN Head(parts).stone_powers[tag]
                                  ELSE powers[tag]])
        cs == Contributions(stone_results)
        ids == FirstSeen(cs, << >>)
        final_results ==
            [i \in 1..Len(ids) |->
                SearchResult(ids[i], SumParts(cs, ids[i]),
                             Updated(cs, ids[i], EmptyDict))]
    IN IF \E i \in 1..Len(stone_results) :
             /\ stone_results[i].results.kind # "list"
             /\ len(stone_results[i].results) > 0
       THEN Raised("AttributeError")
       ELSE Returned(Prefix(SortedDesc(final_results), MaxCombined))

\* _apply_ranking_algorithms: every result gets the final score of its
\* document for this query (final, the outcome of the five ranking factors)
\* and the list is sorted by it
_apply_ranking_algorithms(final, results) ==
    SortedDesc([i \in 1..Len(results) |->
                   [results[i] EXCEPT !.relevance_score = final[results[i].product_id]]])

\* what a call of search leaves behind: the engine after it, what it
\* returned or raised, and stone_results (empty when no stage was reached)
Done(e, ret, stone_results) ==
    [obj |-> e, ret |-> ret, stone_results |-> stone_results]

\* a result list handed to the caller: the object and, when it is one the
\* cache holds, its reference
Handed(ref, x) == Returned([ref |-> ref, kind |-> x.kind, items |-> x.items])

\* lines 557-575: the ranked list is stored in the cache and returned
search_ranked(e, stone_results, cache_key, t, ref, ranked_results) ==
    Done([e EXCEPT !.heap = DictSet(@, ref, ranked_results),
                   !.search_cache = put(@, cache_key, ref, t)],
         Handed(ref, ranked_results), stone_results)

\* lines 553-557: the combined list is ranked; an exception of
\* combine_results leaves search as a SearchError
search_combined(e, stone_results, cache_key, final, t, combined_results) ==
    IF combined_results.raised
    THEN Done(e, Raised("SearchError"), stone_results)
    ELSE search_ranked(e, stone_results, cache_key, t, NewRef(e.heap),
                       List(_apply_ranking_algorithms(final,
                                                      combined_results.value)))

\* lines 546-553: nothing found by any stage is an empty list, which is
\* not cached
search_staged(staged, cache_key, final, t) ==
    LET \* sum(len(results) for results in stone_results.values())
        RECURSIVE TotalResults(_)
        TotalResults(stone_results) ==
            IF stone_results = << >> THEN 0
            ELSE len(Head(stone_results).results)
                   + TotalResults(Tail(stone_results))
    IN
    IF TotalResults(staged.stone_results) = 0
    THEN Done(staged.obj, Handed(None, List(<< >>)), staged.stone_results)
    ELSE search_combined(staged.obj, staged.stone_results, cache_key, final, t,
                         combine_results(staged.stone_results, stone_weights))

\* the stages run whatever the cache holds
search_looked_NoCache(e, cleaned_query, cache_key, pref, outs, t, looked) ==
    search_staged(RunStones([e EXCEPT !.search_cache = looked.obj],
                            cleaned_query, pref, outs.stage, t, 1, << >>),
                  cache_key, outs.final, t)

\* lines 510-544: a cached list is returned as it is; otherwise the stages
\* run
search_looked(e, cleaned_query, cache_key, pref, outs, t, looked) ==
    IF looked.ret # None
    THEN Done([e EXCEPT !.search_cache = looked.obj],
              Handed(looked.ret, e.heap[looked.ret]), << >>)
    ELSE search_staged(RunStones([e EXCEPT !.search_cache = looked.obj],
                                 cleaned_query, pref, outs.stage, t, 1, << >>),
                       cache_key, outs.final, t)

\* lines 503-510: the query is counted and the cache is asked for
\* f"{cleaned_query}_{stone_preference}"
search_cleaned(e, cleaned_query, cache_key, pref, outs, t) ==
    LET \* collections.Counter: counter[k] += 1
        Inc(counter, k) ==
            DictSet(counter, k,
                    IF k \in DOMAIN counter THEN counter[k] + 1 ELSE 1)
    IN
    search_looked([e EXCEPT !.analytics.total_searches = @ + 1,
                            !.analytics.popular_queries =
                                Inc(@, lower(cleaned_query))],
                  cleaned_query, cache_key, pref, outs, t,
                  get(e.search_cache, cache_key, t, t))

\* lines 491-501: a query that does not validate is answered with [], and
\* an engine without documents raises
search_validated(e, pref, outs, t, valid) ==
    LET \* str(stone_preference), as it is formatted into the cache key
        stone_preference ==
            IF pref = None THEN <<"N", "o", "n", "e">>
            ELSE <<"S", "t", "o", "n", "e", "T", "y", "p", "e", ".">>
                 \o CASE pref = "SPACE" -> <<"S", "P", "A", "C", "E">>
                      [] pref = "MIND" -> <<"M", "I", "N", "D">>
                      [] pref = "REALITY" ->
                            <<"R", "E", "A", "L", "I", "T", "Y">>
                      [] pref = "POWER" -> <<"P", "O", "W", "E", "R">>
                      [] pref = "TIME" -> <<"T", "I", "M", "E">>
                      [] pref = "SOUL" -> <<"S", "O", "U", "L">>
    IN
    IF valid.raised THEN Done(e, Handed(None, List(<< >>)), << >>)
    ELSE IF e.products = << >> THEN Done(e, Raised("SearchError"), << >>)
    ELSE search_cleaned(e, valid.value,
                        valid.value \o <<"_">> \o stone_preference, pref,
                        outs, t)

\* InfinityStonesSearchEngine.search(query, stone_preference) at time t;
\* outs is what the scoring of each stage and the ranking factors give for
\* this query
search(e, v, pref, outs, t) ==
    search_validated(e, pref, outs, t, validate_query(v))

\* _extract_terms_from_expression
RECURSIVE _extract_terms_from_expression(_)
_extract_terms_from_expression(expr) ==
    CASE expr.type = "term" -> {expr.value}
      [] expr.type \in {"and", "or"} ->
            _extract_terms_from_expression(expr.left)
              \cup _extract_terms_from_expression(expr.right)
      [] expr.type = "not" -> _extract_terms_from_expression(expr.operand)
      [] OTHER -> {}

\* lines 597-628: the documents the parsed expression selects, in the order
\* of the document store, each with the base score 1
BooleanMatches(e, expr) ==
    LET \* ' '.join(str(v) for v in product.values()
        \*          if isinstance(v, str)).lower()
        \* the values written by the stages come after the loaded ones
        ProductText(product) ==
            lower(join(<<" ">>,
                       product.values
                         \o [i \in 1..Len(SelectSeq(product.written,
                                     LAMBDA w : IsStr(w.value))) |->
                                SelectSeq(product.written,
                                          LAMBDA w : IsStr(w.value))[i].value.value]))
        all_terms == _extract_terms_from_expression(expr)
        matches ==
            [term \in all_terms |->
                {e.products[i].id : i \in {j \in 1..Len(e.products) :
                     Contains(ProductText(e.products[j]), lower(term))}}]
        matching_product_ids == evaluate_boolean_expression(expr, matches)
        chosen == SelectSeq(e.products, LAMBDA product : product.id \in matching_product_ids)
    IN [i \in 1..Len(chosen) |-> SearchResult(chosen[i].id, 1, "MIND" :> 1)]

\* lines 629-632: an exception of the fallback search is caught and the
\* boolean query itself is searched
search_boolean_fallback(r, bq, pref, outs, t) ==
    IF r.ret.raised THEN search(r.obj, Str(bq), pref, outs, t) ELSE r

\* lines 586-628, once the query has been parsed
search_boolean_parsed(e, bq, pref, outs, t, parsed_query) ==
    IF ~parsed_query.success
    THEN search_boolean_fallback(
             search(e, Str(join(<<" ">>, parsed_query.fallback_terms)),
                    pref, outs, t),
             bq, pref, outs, t)
    ELSE Done(e, Handed(None, List(BooleanMatches(e, parsed_query.expression))),
              << >>)

\* InfinityStonesSearchEngine.search_boolean(boolean_query, stone_preference)
\* for a str boolean_query with the characters bq
search_boolean(e, bq, pref, outs, t) ==
    search_boolean_parsed(e, bq, pref, outs, t, parse_boolean_query(split(bq)))

\* CacheWarmer.warm_query_cache, from entry i of popular_queries on
RECURSIVE warm_query_cache(_, _, _)
warm_query_cache(e, t, i) ==
    LET \* self.popular_queries, cut to its first entry
        popular_queries == <<<<"b", "l", "u", "e", "t", "o", "o", "t", "h">>>>
        \* query_cache.put(f"warm_{query}_all",
        \*                 {"warmed": True, "query": query}): the value is
        \* a dict (iterating it gives its keys, which are str)
        WarmPut(cache_key, ref) ==
            [e EXCEPT !.heap = DictSet(@, ref,
                                       [kind |-> "dict",
                                        items |-> <<"warmed", "query">>]),
                      !.search_cache = put(@, cache_key, ref, t)]
    IN IF i > Len(popular_queries) THEN e
       ELSE warm_query_cache(
                WarmPut(<<"w", "a", "r", "m", "_">> \o popular_queries[i]
                            \o <<"_", "a", "l", "l">>,
                        NewRef(e.heap)),
                t, i + 1)

(***************************************************************************)
(* The engine with the result cache it shares: searches, boolean searches  *)
(* and the operations other holders of the cache make on it.               *)
(***************************************************************************)
MaxSearches == 2    \* calls of search and search_boolean
MaxCacheOps == 1    \* calls made on the shared cache from outside

\* the document store after _load_data: every document with its id, its
\* str values as loaded (the id and the Name) and the fields written into
\* it since, in the order of their keys
Catalogue ==
    <<[id |-> "p1", values |-> <<<<"p", "1">>, <<"a">>>>, written |-> << >>],
      [id |-> "p2", values |-> <<<<"p", "2">>, <<"a", " ", "b">>>>,
       written |-> << >>]>>

\* what the scoring gives in one search: per stage, whether it raises and
\* the list it returns otherwise; and the final score of every document.
\* Either no document matches and no stage raises, or every stage that does
\* not raise returns both documents and at most one stage raises: the
\* first one, or the one that writes the query into the documents.
Scorings ==
    LET Stones == {StoneOrder[i] : i \in 1..Len(StoneOrder)}
        \* the scores SpaceStone gives the two documents for the query
        \* and, for p1, for the query MindStone expands with synonyms;
        \* MindStone, RealityStone and SoulStone hand on SpaceStone's
        \* stone_powers, the last two adding their own tag
        Powers(st, space, score) ==
            CASE st \in {"SPACE", "MIND"} -> "SPACE" :> space
              [] st \in {"REALITY", "SOUL"} -> "SPACE" :> space @@ st :> score
              [] OTHER -> st :> score
        StageHits(st) ==
            <<SearchResult("p1", 2, Powers(st, IF st = "MIND" THEN 3 ELSE 2, 2)),
              SearchResult("p2", 1, Powers(st, 1, 1))>>
        Scoring(hit, failing) ==
            [stage |-> [st \in Stones |->
                           [raises |-> st \in failing,
                            results |-> IF hit THEN StageHits(st) ELSE << >>]],
             final |-> [pid \in {"p1", "p2"} |-> IF pid = "p1" THEN 1 ELSE 2]]
    IN {Scoring(FALSE, {})} \cup {Scoring(TRUE, {})}
         \cup {Scoring(TRUE, {st}) : st \in {"SPACE", "POWER"}}

engine ==
    [products |-> products, analytics |-> analytics, search_cache |-> self,
     heap |-> objects]

AssignEngine(e) ==
    /\ products' = e.products
    /\ analytics' = e.analytics
    /\ Assign(e.search_cache)
    /\ objects' = e.heap

EngInit ==
    /\ max_size = MaxSize
    /\ ttl = MaxTtl
    /\ cache = << >>
    /\ access_times = EmptyDict
    /\ hits = 0
    /\ misses = 0
    /\ evictions = 0
    /\ now = 0
    /\ last = Call("init", None, None, None)
    /\ ops = 0
    /\ gets = 0
    /\ hist = [k \in Keys |-> Absent("never")]
    /\ touchOrder = << >>
    /\ Idle({"cache", "engine"})
    /\ products \in {<< >>, Catalogue}
    /\ analytics = [total_searches |-> 0, popular_queries |-> EmptyDict]
    /\ objects = EmptyDict
    /\ served = [op |-> "init"]
    /\ eops = [search |-> 0, cache |-> 0]

engFrame == <<seqVars, concVars, boolVars, evalVars, facetVars, fuzzyVars,
              realityVars>>

\* a call of search or search_boolean that left done behind; served keeps
\* its arguments, the time and what it returned
Serve(op, v, pref, done) ==
    /\ eops.search < MaxSearches
    /\ AssignEngine(done.obj)
    /\ served' = [op |-> op, query |-> v, pref |-> pref, at |-> now,
                  ret |-> done.ret, stone_results |-> done.stone_results]
    /\ eops' = [eops EXCEPT !.search = @ + 1]
    /\ UNCHANGED <<now, engFrame>>

\* engine.search(v, pref)
Search(v, pref, outs) ==
    Serve("search", v, pref, search(engine, v, pref, outs, now))

\* engine.search_boolean(bq, pref)
SearchBoolean(bq, pref, outs) ==
    Serve("search_boolean", Str(bq), pref,
          search_boolean(engine, bq, pref, outs, now))

\* a call on the shared cache that takes the engine to e
CacheOp(op, e) ==
    /\ eops.cache < MaxCacheOps
    /\ AssignEngine(e)
    /\ served' = [op |-> op, query |-> Str(<< >>), pref |-> None, at |-> now,
                  ret |-> Handed(None, List(<< >>)), stone_results |-> << >>]
    /\ eops' = [eops EXCEPT !.cache = @ + 1]
    /\ UNCHANGED <<now, engFrame>>

\* global_cache_warmer.warm_query_cache(engine)
WarmQueryCache == CacheOp("warm_query_cache", warm_query_cache(engine, now, 1))
\* search_cache.cleanup_expired()
EngCleanupExpired ==
    CacheOp("cleanup_expired",
            [engine EXCEPT !.search_cache = cleanup_expired(@, now).obj])
\* search_cache.clear()
EngClear == CacheOp("clear", [engine EXCEPT !.search_cache = clear(@)])

\* search('a') on a second engine of the process, built from another
\* collection: global_cache_system hands every engine the same query cache
\* (lines 136-137).  Of that engine only the cache is kept here; every
\* stage finds its one document.
OtherEngineSearch ==
    LET q1 == SearchResult("q1", 1, "SPACE" :> 1)
        other ==
            [engine EXCEPT
                !.products = <<[id |-> "q1", values |-> <<<<"q", "1">>, <<"a">>>>,
                                written |-> << >>]>>,
                !.analytics = [total_searches |-> 0,
                               popular_queries |-> EmptyDict]]
        stages == [st \in {StoneOrder[i] : i \in 1..Len(StoneOrder)} |->
                      [raises |-> FALSE, results |-> <<q1>>]]
        done == search(other, Str(<<"a">>), None,
                       [stage |-> stages, final |-> "q1" :> 1], now)
    IN CacheOp("other_engine_search",
               [engine EXCEPT !.search_cache = done.obj.search_cache,
                              !.heap = done.obj.heap])

\* time passes once the cache holds an entry that can age
EngTick ==
    /\ now < MaxTime
    /\ cache # << >>
    /\ now' = now + 1
    /\ UNCHANGED <<cacheVars, engVars, engFrame>>

\* the queries passed to search: str that are empty, blank, emptied by
\* the sanitizer, plain and the key of a warmed entry, and an int (which
\* carries its digits)
\* the boolean queries are one that does not parse, one with a doubled
\* space that does not parse, and one that parses (the term b)
EngNext ==
    \/ \E v \in
            {Str(<< >>), Str(<<" ">>), Str(<<"<", ">">>), Str(<<"a">>),
             Str(<<"w", "a", "r", "m", "_", "b", "l", "u", "e", "t", "o", "o", "t",
                   "h", "_", "a", "l", "l">>),
             [type |-> "int", value |-> <<"4", "2">>]},
          pref \in {None, "SPACE"}, outs \in Scorings :
          Search(v, pref, outs)
    \/ \E bq \in {<<"(", "a">>, <<"a", " ", " ", "a", "n", "d">>,
                   <<"b">>},
          pref \in {None, "SPACE"}, outs \in Scorings :
          SearchBoolean(bq, pref, outs)
    \/ WarmQueryCache
    \/ EngCleanupExpired
    \/ EngClear
    \/ OtherEngineSearch
    \/ EngTick

SpecEngine == EngInit /\ [][EngNext]_vars

\* the step is a call of op on the engine
Calls(op) == eops'.search = eops.search + 1 /\ served'.op = op

\* C12: when the boolean query does not parse, search_boolean leaves behind
\* exactly what search does for the query's whitespace-separated words joined
\* by single spaces and the same stone preference: the same return value or
\* exception, the same engine, the same stages run.
C12_ParseFailureFallsBackToSearch ==
    [][(Calls("search_boolean")
          /\ ~parse_boolean_query(split(served'.query.value)).success) =>
        \E outs \in Scorings :
           LET d == search(engine,
                           Str(join(<<" ">>, split(served'.query.value))),
                           served'.pref, outs, now)
           IN /\ served'.ret = d.ret
              /\ served'.stone_results = d.stone_results
              /\ engine' = d.obj]_vars

C12_Witness ==
    /\ served.op = "search_boolean"
    /\ served.query = Str(<<"a", " ", " ", "a", "n", "d">>)
    /\ ~parse_boolean_query(split(served.query.value)).success
    /\ ~served.ret.raised
    /\ served.ret.value.items # << >>
    /\ <<"a", " ", "a", "n", "d">> \in DOMAIN analytics.popular_queries

\* C16: search returns an empty list and raises nothing for a query that is
\* empty or whitespace-only after trimming, and for a query that is not a
\* str.
C16_InvalidQueryGivesEmptyList ==
    (served.op = "search"
       /\ (~IsStr(served.query) \/ strip(served.query.value) = << >>)) =>
        /\ ~served.ret.raised
        /\ served.ret.value.kind = "list"
        /\ served.ret.value.items = << >>

C16_Witness ==
    /\ served.op = "search"
    /\ served.query = Str(<<" ">>)
    /\ products # << >>
    /\ ~served.ret.raised
    /\ served.ret.value.items = << >>
    /\ cache # << >>

\* the query as a str, trimmed and without the characters < > " '
Sanitized(v) == SelectSeq(strip(v.value), LAMBDA c : c \notin Dangerous)

\* C17: on an engine that holds documents, a search for a str that is
\* empty after trimming and stripping the characters < > " ' returns the
\* empty list and leaves total_searches, popular_queries, the result cache
\* and its hit and miss counters as they were, and runs no scoring stage.
C17_EmptyAfterStrippingIsImmediate ==
    [][(Calls("search") /\ products # << >> /\ IsStr(served'.query)
          /\ Sanitized(served'.query) = << >>) =>
        /\ ~served'.ret.raised
        /\ served'.ret.value.items = << >>
        /\ analytics' = analytics
        /\ served'.stone_results = << >>
        /\ UNCHANGED <<cache, access_times, hits, misses>>]_vars

\* C18: with at least one document loaded, search raises no exception,
\* whatever searches, boolean searches and operations on the shared result
\* cache came before; search raises only when no document is loaded.
C18_SearchRaisesOnlyWithoutDocuments ==
    (served.op = "search" /\ served.ret.raised) => products = << >>

\* the stages search runs for a stone preference, in order
Selected(pref) == SelectSeq(StoneOrder, LAMBDA st : pref = None \/ st = pref)
\* the documents the stages of stone_results returned
Found(stone_results) ==
    UNION {{stone_results[i].results.items[j].product_id :
               j \in 1..len(stone_results[i].results)} :
           i \in 1..Len(stone_results)}
\* relevance_score * weight of the document pid, summed over the stages
\* that did not raise
RECURSIVE Weighted(_, _)
Weighted(stone_results, pid) ==
    IF stone_results = << >> THEN 0
    ELSE LET h == Head(stone_results)
             hit == {j \in 1..len(h.results) : h.results.items[j].product_id = pid}
         IN (IF h.raised \/ hit = {} THEN 0
             ELSE h.results.items[CHOOSE j \in hit : TRUE].relevance_score
                    * stone_weights[h.stone])
            + Weighted(Tail(stone_results), pid)

\* C19: when a scoring stage raises during search, search does not raise;
\* the stage contributes an empty list, every selected stage is still run,
\* the stages that did not raise are combined with their own weights, and
\* the documents they found are the ones returned.
C19_FailedStageContributesNothing ==
    (served.op = "search"
       /\ \E i \in 1..Len(served.stone_results) : served.stone_results[i].raised) =>
        /\ ~served.ret.raised
        /\ [i \in 1..Len(served.stone_results) |-> served.stone_results[i].stone]
              = Selected(served.pref)
        /\ \A i \in 1..Len(served.stone_results) :
              served.stone_results[i].raised =>
                  served.stone_results[i].results = List(<< >>)
        /\ {served.ret.value.items[i].product_id :
               i \in 1..Len(served.ret.value.items)} = Found(served.stone_results)
        /\ LET combined == combine_results(served.stone_results, stone_weights)
           IN /\ ~combined.raised
              /\ \A i \in 1..Len(combined.value) :
                    combined.value[i].relevance_score
                      = Weighted(served.stone_results, combined.value[i].product_id)

\* C20: when a search has returned a non-empty list and the next call on
\* the engine is a search for the same query with the same stone preference
\* no later than ttl after it, that call is a cache hit: hits grows by one,
\* the same list object is returned, no scoring stage runs and the eviction
\* counter stays as it was.
C20_RepeatedQueryIsCacheHit ==
    [][(/\ served.op = "search"
        /\ ~served.ret.raised
        /\ served.ret.value.items # << >>
        /\ Calls("search")
        /\ served'.query = served.query
        /\ served'.pref = served.pref
        /\ now - served.at <= ttl) =>
        /\ hits' = hits + 1
        /\ served'.ret = served.ret
        /\ served'.stone_results = << >>
        /\ evictions' = evictions]_vars

C20_Witness ==
    /\ served.op = "search"
    /\ eops = [search |-> 2, cache |-> 0]
    /\ served.at = 1
    /\ hits = 1
    /\ ~served.ret.raised
    /\ served.ret.value.items # << >>
    /\ served.stone_results = << >>

\* C21: search, search_boolean and search_with_facets leave every document
\* of the document store unchanged: each stored document keeps exactly the
\* fields and values it had when the store was built.
C21_SearchLeavesDocumentsUnchanged == [][products' = products]_vars

\* the result list of the boolean query on the documents as loaded
AsLoaded(ps) == [i \in 1..Len(ps) |-> [ps[i] EXCEPT !.written = << >>]]
\* the ids of the documents of a result list
Ids(items) == {items[i].product_id : i \in 1..Len(items)}

\* C27: the set of documents search_boolean returns for a query that parses
\* depends only on the query and on the documents as loaded: it is the same
\* whatever searches were executed on the engine before.
C27_BooleanResultIgnoresEarlierSearches ==
    (served.op = "search_boolean"
       /\ parse_boolean_query(split(served.query.value)).success) =>
        /\ ~served.ret.raised
        /\ Ids(served.ret.value.items)
              = Ids(BooleanMatches(
                        [engine EXCEPT !.products = AsLoaded(products)],
                        parse_boolean_query(split(served.query.value)).expression))

\* C28: a result list that search serves was computed by this engine over
\* its own collection: it holds no result another engine of the process
\* computed over its collection and cached.
C28_CachedResultsAreTheEnginesOwn ==
    (served.op = "search" /\ ~served.ret.raised) =>
        Ids(served.ret.value.items)
            \subseteq {products[i].id : i \in 1..Len(products)}

\* combine_results of the first n stages of stone_results
CombinedUpTo(stone_results, n) ==
    combine_results(SubSeq(stone_results, 1, n), stone_weights).value
\* the stone_powers of the document pid in a combined list (none when the
\* document is not in it)
PowersOf(combined, pid) ==
    IF pid \in Ids(combined)
    THEN combined[CHOOSE i \in 1..Len(combined) :
                     combined[i].product_id = pid].stone_powers
    ELSE EmptyDict

\* C24: when results for the same document from several stages are
\* combined, the combined stone_powers map has the tags of all the stages'
\* maps, and a value recorded under a tag is never replaced by a different
\* value that a later stage reports under the same tag.
C24_StonePowersAreMergedNotOverwritten ==
    (served.op = "search" /\ ~served.ret.raised
       /\ served.stone_results # << >>) =>
        \A n \in 1..Len(served.stone_results), pid \in {"p1", "p2"} :
            LET stage == served.stone_results[n].results.items
                before == PowersOf(CombinedUpTo(served.stone_results, n - 1), pid)
                after == PowersOf(CombinedUpTo(served.stone_results, n), pid)
            IN /\ DOMAIN after = DOMAIN before \cup DOMAIN PowersOf(stage, pid)
               /\ \A tag \in DOMAIN before : after[tag] = before[tag]

MaxScale == 3    \* largest factor the weights are multiplied by

AnyIn(keywords, text) == \E keyword \in keywords : Contains(text, keyword)

\* the categories _infer_category returns
Category ==
    [Mobile |-> <<"M", "o", "b", "i", "l", "e", " ", "&", " ", "T", "a", "b",
            "l", "e", "t", "s">>,
     Computers |-> <<"C", "o", "m", "p", "u", "t", "e", "r", "s">>,
     Audio |-> <<"A", "u", "d", "i", "o">>,
     Automotive |-> <<"A", "u", "t", "o", "m", "o", "t", "i", "v", "e">>,
     Photography |-> <<"P", "h", "o", "t", "o", "g", "r", "a", "p", "h",
             "y">>,
     HomeKitchen |-> <<"H", "o", "m", "e", " ", "&", " ", "K", "i", "t", "c",
             "h", "e", "n">>,
     Beauty |-> <<"B", "e", "a", "u", "t", "y">>,
     Sports |-> <<"S", "p", "o", "r", "t", "s", " ", "&", " ", "F", "i", "t",
             "n", "e", "s", "s">>,
     Other |-> <<"O", "t", "h", "e", "r">>]

_infer_category(product_type) ==
    LET type_lower == lower(product_type)
    IN CASE AnyIn({<<"p", "h", "o", "n", "e">>, <<"m", "o", "b", "i", "l",
            "e">>, <<"s", "m", "a", "r", "t", "p", "h", "o", "n", "e">>,
                    <<"t", "a", "b", "l", "e", "t">>}, type_lower)
              -> Category.Mobile
         [] AnyIn({<<"l", "a", "p", "t", "o", "p">>, <<"c", "o", "m", "p",
                 "u", "t", "e", "r">>, <<"p", "c">>, <<"d", "e", "s", "k",
                         "t", "o", "p">>}, type_lower)
              -> Category.Computers
         [] AnyIn({<<"h", "e", "a", "d", "p", "h", "o", "n", "e">>, <<"e",
                 "a", "r", "p", "h", "o", "n", "e">>, <<"s", "p", "e", "a",
                         "k", "e", "r">>, <<"a", "u", "d", "i", "o">>},
                                 type_lower)
              -> Category.Audio
         [] AnyIn({<<"c", "a", "r">>, <<"a", "u", "t", "o">>, <<"v", "e",
                 "h", "i", "c", "l", "e">>}, type_lower)
              -> Category.Automotive
         [] AnyIn({<<"c", "a", "m", "e", "r", "a">>, <<"p", "h", "o", "t",
                 "o">>, <<"l", "e", "n", "s">>}, type_lower)
              -> Category.Photography
         [] AnyIn({<<"h", "o", "m", "e">>, <<"k", "i", "t", "c", "h", "e",
                 "n">>, <<"f", "u", "r", "n", "i", "t", "u", "r", "e">>},
                         type_lower)
              -> Category.HomeKitchen
         [] AnyIn({<<"b", "e", "a", "u", "t", "y">>, <<"c", "o", "s", "m",
                 "e", "t", "i", "c">>, <<"s", "k", "i", "n", "c", "a", "r",
                         "e">>}, type_lower)
              -> Category.Beauty
         [] AnyIn({<<"s", "p", "o", "r", "t">>, <<"f", "i", "t", "n", "e",
                 "s", "s">>, <<"e", "x", "e", "r", "c", "i", "s", "e">>},
                         type_lower)
              -> Category.Sports
         [] OTHER -> Category.Other

\* the currency sign in the label of the lowest range is written Rs
_extract_price_range(product) ==
    LET full_text == lower(DictGet(product, "Sales Package",
            << >>) \o <<" ">>
                             \o DictGet(product, "Name", << >>))
    IN CASE Contains(full_text, <<"u", "n", "d", "e", "r">>)
              /\ AnyIn({<<"1", "0", "0", "0">>, <<"5", "0", "0">>, <<"1",
                      "0", "0">>}, full_text)
              -> <<"U", "n", "d", "e", "r", " ", "R", "s", "1", "0", "0",
                      "0">>
         [] AnyIn({<<"p", "r", "e", "m", "i", "u", "m">>, <<"e", "x", "p",
                 "e", "n", "s", "i", "v", "e">>, <<"h", "i", "g", "h", "-",
                         "e", "n", "d">>}, full_text)
              -> <<"P", "r", "e", "m", "i", "u", "m">>
         [] AnyIn({<<"b", "u", "d", "g", "e", "t">>, <<"a", "f", "f", "o",
                 "r", "d", "a", "b", "l", "e">>, <<"c", "h", "e", "a",
                         "p">>}, full_text)
              -> <<"B", "u", "d", "g", "e", "t">>
         [] OTHER -> <<"S", "t", "a", "n", "d", "a", "r", "d">>

_has_detailed_specs(product) ==
    LET sales_package == DictGet(product, "Sales Package", << >>)
        spec_indicators ==
            {<<"g", "b">>, <<"m", "b">>, <<"i", "n", "c", "h">>, <<"m",
                    "p">>, <<"m", "a", "h">>, <<"h", "z">>, <<"g", "h",
                            "z">>, <<"r", "a", "m">>, <<"s", "t", "o", "r",
                                    "a", "g", "e">>, <<"b", "a", "t", "t",
                                            "e", "r", "y">>}
        spec_count == Cardinality({indicator \in spec_indicators :
                                      Contains(lower(sales_package),
                                              indicator)})
    IN IF sales_package = << >> THEN FALSE
       ELSE spec_count >= 2 \/ Len(sales_package) > 200

\* 'Yes' if self._has_detailed_specs(product) else 'No'
has_specs(product) ==
    IF _has_detailed_specs(product) THEN <<"Y", "e", "s">> ELSE <<"N", "o">>

\* a facet is the list of its values in the order they were first seen,
\* each with its count
_build_facets(ps) ==
    LET FacetNames == {"brand", "type", "category", "price_range",
            "has_specs"}
        \* counter[value] += 1
        Count(counter, value) ==
            IF \E i \in 1..Len(counter) : counter[i].value = value
            THEN [i \in 1..Len(counter) |->
                     IF counter[i].value = value
                     THEN [counter[i] EXCEPT !.count = @ + 1]
                     ELSE counter[i]]
            ELSE Append(counter, [value |-> value, count |-> 1])
        \* lines 333-358: the facets after the products from the i-th on
        \* have been counted
        RECURSIVE CountFacets(_, _)
        CountFacets(i, fc) ==
            IF i > Len(ps) THEN fc
            ELSE LET product == ps[i]
                     brand == strip(DictGet(product, "Brand", << >>))
                     product_type == strip(DictGet(product, "Type",
                             << >>))
                     f1 == IF brand # << >>
                           THEN [fc EXCEPT !.brand = Count(@, brand)] ELSE fc
                     f2 == IF product_type # << >>
                           THEN [f1 EXCEPT
                                    !.type = Count(@, product_type),
                                    !.category =
                                        Count(@,
                                                _infer_category(product_type))]
                           ELSE f1
                     f3 == [f2 EXCEPT
                               !.price_range =
                                   Count(@, _extract_price_range(product)),
                               !.has_specs = Count(@, has_specs(product))]
                 IN CountFacets(i + 1, f3)
        \* sorted(facet_data.items(), key=lambda x: x[1], reverse=True):
        \* stable
        RECURSIVE SortedByCount(_)
        SortedByCount(items) ==
            IF items = << >> THEN << >>
            ELSE LET rest == SortedByCount(Tail(items))
                     x == Head(items)
                 IN SelectSeq(rest, LAMBDA y : y.count > x.count) \o <<x>>
                      \o SelectSeq(rest, LAMBDA y : y.count <= x.count)
        counted == CountFacets(1, [facet_name \in FacetNames |-> << >>])
    IN [facet_name \in FacetNames |->
           Prefix(SortedByCount(counted[facet_name]), 20)]

\* lines 464-488: whether the product has one of the selected values of
\* the facet
MatchesFacet(product, facet_name, selected_values) ==
    CASE facet_name = "brand" ->
            DictGet(product, "Brand", << >>) \in SetOf(selected_values)
      [] facet_name = "type" ->
            DictGet(product, "Type", << >>) \in SetOf(selected_values)
      [] facet_name = "category" ->
            _infer_category(DictGet(product, "Type", << >>))
                \in SetOf(selected_values)
      [] facet_name = "price_range" ->
            _extract_price_range(product) \in SetOf(selected_values)
      [] facet_name = "has_specs" ->
            has_specs(product) \in SetOf(selected_values)
      [] OTHER -> FALSE

\* one matching facet is enough
RECURSIVE MatchesAllFilters_AnyFacet(_, _)
MatchesAllFilters_AnyFacet(product, items) ==
    IF items = << >> THEN FALSE
    ELSE IF Head(items).selected_values = << >>
         THEN TRUE
         ELSE MatchesFacet(product, Head(items).facet_name,
                           Head(items).selected_values)
                \/ MatchesAllFilters_AnyFacet(product, Tail(items))

\* lines 456-492: matches_all_filters, the loop over filters.items()
RECURSIVE MatchesAllFilters(_, _)
MatchesAllFilters(product, items) ==
    IF items = << >> THEN TRUE
    ELSE IF Head(items).selected_values = << >>
         THEN MatchesAllFilters(product, Tail(items))
         ELSE IF ~MatchesFacet(product, Head(items).facet_name,
                               Head(items).selected_values)
              THEN FALSE
              ELSE MatchesAllFilters(product, Tail(items))

\* filter_by_facets(product_ids, filters) over self.products = ps; fs is
\* filters.items()
filter_by_facets(ps, ids, fs) ==
    IF fs = << >> THEN ids
    ELSE {ps[i].id : i \in {j \in 1..Len(ps) :
                               ps[j].id \in ids /\ MatchesAllFilters(ps[j],
                                       fs)}}

\* the store of the tests
TestStore ==
    <<[id |-> "1", Brand |-> <<"S", "a", "m", "s", "u", "n", "g">>,
            Type |-> <<"P", "h", "o", "n", "e">>],
      [id |-> "2", Brand |-> <<"A", "p", "p", "l", "e">>, Type |-> <<"P",
              "h", "o", "n", "e">>],
      [id |-> "3", Brand |-> <<"S", "o", "n", "y">>, Type |-> <<"H", "e",
              "a", "d", "p", "h", "o", "n", "e">>],
      [id |-> "4", Brand |-> <<"S", "a", "m", "s", "u", "n", "g">>,
              Type |-> <<"T", "V">>]>>
\* and a second one with a missing Brand, a Brand followed by a space, a
\* Name and a Sales Package
Stores ==
    {TestStore,
     <<("id" :> "1" @@ "Type" :> <<"S", "p", "e", "a", "k", "e", "r">>
          @@ "Sales Package" :> <<"b", "u", "d", "g", "e", "t", " ", "4",
                  "g", "b", " ", "r", "a", "m">>),
       ("id" :> "2" @@ "Brand" :> <<"S", "a", "m", "s", "u", "n", "g", " ">>
          @@ "Type" :> <<"T", "a", "b", "l", "e", "t">>
          @@ "Name" :> <<"p", "r", "e", "m", "i", "u", "m">>)>>}

MaxFilters == 2    \* facets in one filters dict

\* the filters passed: up to MaxFilters facets, each with a list of values
Filters ==
    LET FilterItems ==
            {[facet_name |-> "brand", selected_values |-> vs] :
                vs \in {<< >>, <<<<"S", "a", "m", "s", "u", "n", "g">>>>,
                        <<<<"S", "a", "m", "s", "u", "n", "g">>, <<"A", "p",
                                "p", "l", "e">>>>}}
              \cup {[facet_name |-> "category", selected_values |-> vs] :
                      vs \in {<< >>, <<Category.Mobile>>,
                              <<Category.Audio, Category.Other>>}}
              \cup {[facet_name |-> "type", selected_values |-> <<<<"P", "h",
                      "o", "n", "e">>>>],
                    [facet_name |-> "price_range",
                     selected_values |-> <<<<"B", "u", "d", "g", "e", "t">>,
                             <<"P", "r", "e", "m", "i", "u", "m">>>>],
                    [facet_name |-> "has_specs", selected_values |-> <<<<"Y",
                            "e", "s">>>>],
                    [facet_name |-> "colour", selected_values |-> <<<<"A",
                            "p", "p", "l", "e">>>>]}
        RECURSIVE FiltersOfSize(_)
        FiltersOfSize(n) ==
            IF n = 0 THEN {<< >>}
            ELSE {Append(fs, item) : fs \in FiltersOfSize(n - 1),
                    item \in FilterItems}
    IN {fs \in UNION {FiltersOfSize(n) : n \in 0..MaxFilters} :
           \A i, j \in 1..Len(fs) : i # j => fs[i].facet_name # fs[j].facet_name}

FacetInit ==
    /\ Idle({"facet"})
    /\ facet_products \in Stores
    /\ facets = _build_facets(facet_products)
    /\ product_ids = {}
    /\ filters = << >>
    /\ filtered_ids = {}
    /\ fpc = "built"

\* filter_by_facets(ids, fs)
FilterByFacets(ids, fs) ==
    /\ fpc = "built"
    /\ product_ids' = ids
    /\ filters' = fs
    /\ filtered_ids' = filter_by_facets(facet_products, ids, fs)
    /\ fpc' = "filtered"
    /\ UNCHANGED <<cacheVars, now, seqVars, concVars, boolVars, evalVars,
                   engVars, fuzzyVars, realityVars, facet_products, facets>>

\* the ids passed are ids of stored documents
FacetNext ==
    \E ids \in SUBSET {facet_products[i].id : i \in 1..Len(facet_products)},
       fs \in Filters :
        FilterByFacets(ids, fs)

SpecFacet == FacetInit /\ [][FacetNext]_vars

\* the values the product has under the facet (none under a facet the
\* engine does not know)
FacetValues(product, facet_name) ==
    CASE facet_name = "brand" -> {DictGet(product, "Brand", << >>)}
      [] facet_name = "type" -> {DictGet(product, "Type", << >>)}
      [] facet_name = "category" ->
            {_infer_category(DictGet(product, "Type", << >>))}
      [] facet_name = "price_range" -> {_extract_price_range(product)}
      [] facet_name = "has_specs" -> {has_specs(product)}
      [] OTHER -> {}

\* C14: for ids of stored documents, filter_by_facets returns exactly the
\* given ids whose document has, for every facet of the filters with a
\* non-empty list of selected values, its value of that facet in the list;
\* a facet that is absent or has an empty list does not constrain.  On the
\* store of the tests brand [Samsung] gives {1, 4} and brand [Samsung] with
\* category [Mobile & Tablets] gives {1}.
C14_FilterIsAndOfOrs ==
    fpc = "filtered" =>
        /\ filtered_ids =
              {id \in product_ids :
                  \E i \in 1..Len(facet_products) :
                      /\ facet_products[i].id = id
                      /\ \A k \in 1..Len(filters) :
                            filters[k].selected_values # << >> =>
                                FacetValues(facet_products[i],
                                        filters[k].facet_name)
                                  \cap SetOf(filters[k].selected_values) # {}}
        /\ (facet_products = TestStore
              /\ product_ids = {"1", "2", "3", "4"}) =>
              /\ filters = <<[facet_name |-> "brand",
                              selected_values |-> <<<<"S", "a", "m", "s",
                                      "u", "n", "g">>>>]>>
                    => filtered_ids = {"1", "4"}
              /\ filters = <<[facet_name |-> "brand",
                              selected_values |-> <<<<"S", "a", "m", "s",
                                      "u", "n", "g">>>>],
                             [facet_name |-> "category",
                              selected_values |-> <<Category.Mobile>>]>>
                    => filtered_ids = {"1"}

C14_Witness ==
    /\ fpc = "filtered"
    /\ facet_products = TestStore
    /\ product_ids = {"1", "2", "3", "4"}
    /\ filters = <<[facet_name |-> "brand",
                    selected_values |-> <<<<"S", "a", "m", "s", "u", "n",
                            "g">>>>],
                   [facet_name |-> "category",
                    selected_values |-> <<Category.Mobile>>]>>
    /\ filtered_ids = {"1"}

\* C29: the facet counts agree with the filter: for every value v that
\* get_facets lists with count c under brand, type or category,
\* filter_by_facets of the ids of all documents with the single filter
\* {facet: [v]} returns exactly c documents.
C29_FacetCountsAgreeWithFilter ==
    (/\ fpc = "filtered"
     /\ product_ids = {facet_products[i].id : i \in 1..Len(facet_products)}
     /\ Len(filters) = 1
     /\ filters[1].facet_name \in {"brand", "type", "category"}
     /\ Len(filters[1].selected_values) = 1) =>
        \A k \in 1..Len(facets[filters[1].facet_name]) :
            facets[filters[1].facet_name][k].value
                    = filters[1].selected_values[1]
                => Cardinality(filtered_ids)
                     = facets[filters[1].facet_name][k].count

AudioKeywords == {<<"h", "e", "a", "d", "p", "h", "o", "n", "e">>, <<"e",
        "a", "r", "p", "h", "o", "n", "e">>, <<"s", "p", "e", "a", "k", "e",
                "r">>, <<"a", "u", "d", "i", "o">>}

\* C15: every type that contains an Audio keyword is given the category
\* Audio; for the store of the tests (types Phone, Phone, Headphone, TV)
\* the category facet lists Audio, and the filter category
\* [Mobile & Tablets] gives exactly the two Phone documents.
C15_HeadphoneIsAudio ==
    /\ \A i \in 1..Len(facet_products) :
          ("Type" \in DOMAIN facet_products[i]
             /\ AnyIn(AudioKeywords, lower(facet_products[i].Type))) =>
              _infer_category(facet_products[i].Type) = Category.Audio
    /\ facet_products = TestStore =>
          \E i \in 1..Len(facets.category) :
              facets.category[i].value = Category.Audio
    /\ (fpc = "filtered" /\ facet_products = TestStore
          /\ product_ids = {"1", "2", "3", "4"}
          /\ filters = <<[facet_name |-> "category",
                          selected_values |-> <<Category.Mobile>>]>>) =>
              filtered_ids = {"1", "2"}

(***************************************************************************)
(* FuzzySearchEngine.  A similarity is a fraction n/d in lowest terms.     *)
(***************************************************************************)
Frac(n, d) ==
    LET RECURSIVE GCD(_, _)
        GCD(x, y) == IF y = 0 THEN x ELSE GCD(y, x % y)
    IN [n |-> n \div GCD(n, d), d |-> d \div GCD(n, d)]
Geq(x, y) == x.n * y.d >= y.n * x.d
Max(x, y) == IF x >= y THEN x ELSE y

\* difflib.SequenceMatcher(None, s, t).ratio(), without junk
ratio(s, t) ==
    LET \* the length of the block s[i:i+k] == t[j:j+k] that starts at i
        \* and j and stays below ahi and bhi (indexes from 0)
        RECURSIVE Run(_, _, _, _)
        Run(i, j, ahi, bhi) ==
            IF i < ahi /\ j < bhi /\ s[i + 1] = t[j + 1]
            THEN 1 + Run(i + 1, j + 1, ahi, bhi)
            ELSE 0
        \* the longest block, of those the one that starts earliest in s,
        \* of those the one that starts earliest in t
        find_longest_match(alo, ahi, blo, bhi) ==
            LET starts == (alo..(ahi - 1)) \X (blo..(bhi - 1))
                longest_size ==
                    CHOOSE k \in 0..(ahi - alo) :
                        /\ \A p \in starts : Run(p[1], p[2], ahi, bhi) <= k
                        /\ k > 0 => \E p \in starts :
                                        Run(p[1], p[2], ahi, bhi) = k
                longest == {p \in starts :
                                Run(p[1], p[2], ahi, bhi) = longest_size}
                besti == CHOOSE x \in {p[1] : p \in longest} :
                             \A p \in longest : x <= p[1]
                bestj == CHOOSE y \in {p[2] : p \in {r \in longest :
                                                        r[1] = besti}} :
                             \A p \in {r \in longest : r[1] = besti} :
                                 y <= p[2]
            IN IF longest_size = 0 THEN [i |-> alo, j |-> blo, size |-> 0]
               ELSE [i |-> besti, j |-> bestj, size |-> longest_size]
        \* the sum of the sizes of get_matching_blocks(): the block x and
        \* the blocks to its left and right
        RECURSIVE MatchingSize(_, _, _, _)
        AroundBlock(alo, ahi, blo, bhi, x) ==
            IF x.size = 0 THEN 0
            ELSE x.size + MatchingSize(alo, x.i, blo, x.j)
                   + MatchingSize(x.i + x.size, ahi, x.j + x.size, bhi)
        MatchingSize(alo, ahi, blo, bhi) ==
            IF alo >= ahi \/ blo >= bhi THEN 0
            ELSE AroundBlock(alo, ahi, blo, bhi,
                             find_longest_match(alo, ahi, blo, bhi))
    IN IF Len(s) + Len(t) = 0 THEN Frac(1, 1)
       ELSE Frac(2 * MatchingSize(0, Len(s), 0, Len(t)), Len(s) + Len(t))

\* the count of differing aligned characters is subtracted without
\* being halved
_jaro_similarity_NotHalved(s1, s2) ==
    LET match_distance == Max(0, (Max(Len(s1), Len(s2)) \div 2) - 1)
        RECURSIVE Repeat(_, _)
        Repeat(v, n) == IF n = 0 THEN << >> ELSE <<v>> \o Repeat(v, n - 1)
        RECURSIVE FindMatch(_, _, _, _)
        FindMatch(i, j, end, m2) ==
            IF j >= end THEN -1
            ELSE IF m2[j + 1] \/ s1[i + 1] # s2[j + 1]
                 THEN FindMatch(i, j + 1, end, m2)
                 ELSE j
        RECURSIVE IdentifyMatches(_, _, _)
        Matched(i, m1, m2, j) ==
            IF j < 0 THEN IdentifyMatches(i + 1, m1, m2)
            ELSE IdentifyMatches(i + 1, [m1 EXCEPT ![i + 1] = TRUE],
                                 [m2 EXCEPT ![j + 1] = TRUE])
        IdentifyMatches(i, m1, m2) ==
            IF i >= Len(s1) THEN [s1_matches |-> m1, s2_matches |-> m2]
            ELSE Matched(i, m1, m2,
                         FindMatch(i, Max(0, i - match_distance),
                                   Min(i + match_distance + 1, Len(s2)), m2))
        RECURSIVE Flagged(_, _)
        Flagged(cs, flags) ==
            IF cs = << >> THEN << >>
            ELSE (IF Head(flags) THEN <<Head(cs)>> ELSE << >>)
                   \o Flagged(Tail(cs), Tail(flags))
        Transpositions(c1, c2) ==
            Cardinality({k \in 1..Len(c1) : c1[k] # c2[k]})
        JaroOf(m) ==
            LET matches == Len(Flagged(s1, m.s1_matches))
                transpositions == Transpositions(Flagged(s1, m.s1_matches),
                                                 Flagged(s2, m.s2_matches))
            IN IF matches = 0 THEN Frac(0, 1)
               ELSE Frac(2 * matches * matches * Len(s2)
                           + 2 * matches * matches * Len(s1)
                           + (2 * matches - 2 * transpositions) * Len(s1)
                               * Len(s2),
                         6 * matches * Len(s1) * Len(s2))
    IN IF Len(s1) = 0 /\ Len(s2) = 0 THEN Frac(1, 1)
       ELSE IF Len(s1) = 0 \/ Len(s2) = 0 THEN Frac(0, 1)
       ELSE JaroOf(IdentifyMatches(0, Repeat(FALSE, Len(s1)),
                                   Repeat(FALSE, Len(s2))))

_jaro_similarity(s1, s2) ==
    LET match_distance == Max(0, (Max(Len(s1), Len(s2)) \div 2) - 1)
        \* [v] * n
        RECURSIVE Repeat(_, _)
        Repeat(v, n) == IF n = 0 THEN << >> ELSE <<v>> \o Repeat(v, n - 1)
        \* lines 88-96: the inner loop for s1[i], from j on (indexes from
        \* 0); m2 is s2_matches; the index of the match found, or -1
        RECURSIVE FindMatch(_, _, _, _)
        FindMatch(i, j, end, m2) ==
            IF j >= end THEN -1
            ELSE IF m2[j + 1] \/ s1[i + 1] # s2[j + 1]
                 THEN FindMatch(i, j + 1, end, m2)
                 ELSE j
        \* lines 88-96: the outer loop from i on
        RECURSIVE IdentifyMatches(_, _, _)
        Matched(i, m1, m2, j) ==
            IF j < 0 THEN IdentifyMatches(i + 1, m1, m2)
            ELSE IdentifyMatches(i + 1, [m1 EXCEPT ![i + 1] = TRUE],
                                 [m2 EXCEPT ![j + 1] = TRUE])
        IdentifyMatches(i, m1, m2) ==
            IF i >= Len(s1) THEN [s1_matches |-> m1, s2_matches |-> m2]
            ELSE Matched(i, m1, m2,
                         FindMatch(i, Max(0, i - match_distance),
                                   Min(i + match_distance + 1, Len(s2)), m2))
        \* the characters of cs at the positions flagged in flags, in order
        RECURSIVE Flagged(_, _)
        Flagged(cs, flags) ==
            IF cs = << >> THEN << >>
            ELSE (IF Head(flags) THEN <<Head(cs)>> ELSE << >>)
                   \o Flagged(Tail(cs), Tail(flags))
        \* lines 101-110: the k-th matched character of s1 is compared with
        \* the k-th matched character of s2
        Transpositions(c1, c2) ==
            Cardinality({k \in 1..Len(c1) : c1[k] # c2[k]})
        \* lines 112-115, with m.s1_matches and m.s2_matches identified
        JaroOf(m) ==
            LET matches == Len(Flagged(s1, m.s1_matches))
                transpositions == Transpositions(Flagged(s1, m.s1_matches),
                                                 Flagged(s2, m.s2_matches))
            IN IF matches = 0 THEN Frac(0, 1)
               ELSE Frac(2 * matches * matches * Len(s2)
                           + 2 * matches * matches * Len(s1)
                           + (2 * matches - transpositions) * Len(s1)
                               * Len(s2),
                         6 * matches * Len(s1) * Len(s2))
    IN IF Len(s1) = 0 /\ Len(s2) = 0 THEN Frac(1, 1)
       ELSE IF Len(s1) = 0 \/ Len(s2) = 0 THEN Frac(0, 1)
       ELSE JaroOf(IdentifyMatches(0, Repeat(FALSE, Len(s1)),
                                   Repeat(FALSE, Len(s2))))

RECURSIVE _levenshtein_distance(_, _)
_levenshtein_distance(s1, s2) ==
    LET \* lines 147-153: current_row for the character c1, continued
        \* from cur
        RECURSIVE CurrentRow(_, _, _)
        CurrentRow(c1, previous_row, cur) ==
            IF Len(cur) = Len(s2) + 1 THEN cur
            ELSE LET j == Len(cur)
                     insertions == previous_row[j + 1] + 1
                     deletions == cur[j] + 1
                     substitutions ==
                         previous_row[j] + (IF c1 # s2[j] THEN 1 ELSE 0)
                 IN CurrentRow(c1, previous_row,
                               Append(cur, Min(Min(insertions, deletions),
                                               substitutions)))
        \* lines 146-154: previous_row after the characters of s1 from the
        \* i-th on
        RECURSIVE LastRow(_, _)
        LastRow(i, previous_row) ==
            IF i > Len(s1) THEN previous_row
            ELSE LastRow(i + 1, CurrentRow(s1[i], previous_row, <<i>>))
    IN IF Len(s1) < Len(s2) THEN _levenshtein_distance(s2, s1)
       ELSE IF Len(s2) = 0 THEN Len(s1)
       ELSE LastRow(1, [j \in 1..(Len(s2) + 1) |-> j - 1])[Len(s2) + 1]

_levenshtein_similarity(s1, s2) ==
    IF Max(Len(s1), Len(s2)) = 0 THEN Frac(1, 1)
    ELSE Frac(Max(Len(s1), Len(s2)) - _levenshtein_distance(s1, s2),
              Max(Len(s1), Len(s2)))

\* lines 46-55: best_similarity of the lower-cased terms
best_similarity(query_lower, term_lower) ==
    LET \* max(similarities)
        MaxOf(x, y) == IF Geq(x, y) THEN x ELSE y
    IN MaxOf(MaxOf(ratio(query_lower, term_lower),
                   _jaro_similarity(query_lower, term_lower)),
             _levenshtein_similarity(query_lower, term_lower))

\* lines 37-63: matches after the loop over corpus_terms
RECURSIVE Appended(_, _, _)
Appended(query_term, corpus_terms, threshold) ==
    IF corpus_terms = << >> THEN << >>
    ELSE LET term == Head(corpus_terms)
             rest == Appended(query_term, Tail(corpus_terms), threshold)
             FuzzyMatch(original_term, matched_term, similarity) ==
                 [original_term |-> original_term,
                  matched_term |-> matched_term,
                  similarity |-> similarity, source |-> "corpus"]
         IN IF lower(query_term) = lower(term) THEN rest
            ELSE IF Geq(best_similarity(lower(query_term), lower(term)),
                    threshold)
                 THEN <<FuzzyMatch(query_term, term,
                                   best_similarity(lower(query_term),
                                           lower(term)))>>
                        \o rest
                 ELSE rest

\* matches.sort(key=lambda x: x.similarity, reverse=True): stable
RECURSIVE SortedBySimilarity(_)
SortedBySimilarity(items) ==
    IF items = << >> THEN << >>
    ELSE LET rest == SortedBySimilarity(Tail(items))
             x == Head(items)
         IN SelectSeq(rest, LAMBDA y : ~Geq(x.similarity, y.similarity))
              \o <<x>>
              \o SelectSeq(rest, LAMBDA y : Geq(x.similarity, y.similarity))

\* the matches are cut to max_results before they are sorted
find_fuzzy_matches_CutFirst(query_term, corpus_terms, max_results, threshold) ==
    SortedBySimilarity(Prefix(Appended(query_term, corpus_terms, threshold),
                              max_results))

\* find_fuzzy_matches for max_results >= 0, threshold being
\* self.similarity_threshold
find_fuzzy_matches(query_term, corpus_terms, max_results, threshold) ==
    Prefix(SortedBySimilarity(Appended(query_term, corpus_terms, threshold)),
           max_results)

MaxCorpus == 2     \* terms in the corpus
MaxResults == 2    \* largest max_results passed

\* the terms: close spellings, one that differs in case only, the empty str
FuzzyWords ==
    {<< >>, <<"a", "b">>, <<"A", "b">>, <<"b", "a">>, <<"a", "b", "c">>,
            <<"a", "b", "d">>, <<"a", "b", "c", "d">>, <<"a", "b", "d", "c">>}

\* similarity_threshold is the one of the tests or the one of
\* global_fuzzy_engine
FuzzyInit ==
    /\ Idle({"fuzzy"})
    /\ fuzzy_threshold \in {Frac(7, 10), Frac(6, 10)}
    /\ fuzzy_term \in FuzzyWords
    \* the corpora of up to MaxCorpus terms
    /\ fuzzy_corpus \in
          LET RECURSIVE CorporaOfSize(_)
              CorporaOfSize(n) ==
                  IF n = 0 THEN {<< >>}
                  ELSE {Append(c, w) : c \in CorporaOfSize(n - 1),
                                       w \in FuzzyWords}
          IN UNION {CorporaOfSize(n) : n \in 0..MaxCorpus}
    /\ fuzzy_max \in 0..MaxResults
    /\ fuzzy_matches = << >>
    /\ zpc = "start"

\* find_fuzzy_matches(query_term, corpus_terms, max_results)
FindFuzzyMatches ==
    /\ zpc = "start"
    /\ fuzzy_matches' = find_fuzzy_matches(fuzzy_term, fuzzy_corpus, fuzzy_max,
                                     fuzzy_threshold)
    /\ zpc' = "found"
    /\ UNCHANGED <<cacheVars, now, seqVars, concVars, boolVars, evalVars,
                   engVars, facetVars, realityVars, fuzzy_threshold, fuzzy_term,
                   fuzzy_corpus, fuzzy_max>>

FuzzyNext == FindFuzzyMatches

SpecFuzzy == FuzzyInit /\ [][FuzzyNext]_vars

\* the number of entries of the sequence sq that satisfy Test
Occurrences(sq, Test(_)) == Cardinality({i \in 1..Len(sq) : Test(sq[i])})
\* the similarity of a corpus term to the query term
Similarity(term) == best_similarity(lower(fuzzy_term), lower(term))
\* the corpus term reaches the threshold and is no self-match
Qualifies(term) ==
    /\ lower(term) # lower(fuzzy_term)
    /\ Geq(Similarity(term), fuzzy_threshold)

\* C13: find_fuzzy_matches returns at most max_results matches, each a
\* corpus term that is not the query term after lower-casing, with its
\* similarity (the largest of the three metrics) at least the threshold,
\* in non-increasing order of similarity; a qualifying corpus term is
\* missing only when max_results matches of at least its similarity were
\* returned.
C13_FuzzyMatchesAreTheBest ==
    zpc = "found" =>
        /\ Len(fuzzy_matches) <= fuzzy_max
        /\ \A i \in 1..Len(fuzzy_matches) :
              /\ fuzzy_matches[i].matched_term \in SetOf(fuzzy_corpus)
              /\ Qualifies(fuzzy_matches[i].matched_term)
              /\ fuzzy_matches[i].similarity = Similarity(fuzzy_matches[i].matched_term)
        /\ \A i, j \in 1..Len(fuzzy_matches) :
              i < j => Geq(fuzzy_matches[i].similarity, fuzzy_matches[j].similarity)
        /\ \A term \in SetOf(fuzzy_corpus) :
              /\ Occurrences(fuzzy_matches, LAMBDA m : m.matched_term = term)
                    <= Occurrences(fuzzy_corpus, LAMBDA c : c = term)
              /\ (Qualifies(term)
                    /\ Occurrences(fuzzy_matches, LAMBDA m : m.matched_term = term)
                         < Occurrences(fuzzy_corpus, LAMBDA c : c = term)) =>
                    /\ Len(fuzzy_matches) = fuzzy_max
                    /\ \A i \in 1..Len(fuzzy_matches) :
                          Geq(fuzzy_matches[i].similarity, Similarity(term))

\* the better of two qualifying terms is kept when fuzzy_max is 1
C13_Witness ==
    /\ zpc = "found"
    /\ fuzzy_term = <<"a", "b", "c">>
    /\ fuzzy_corpus = <<<<"a", "b", "d">>, <<"a", "b", "c", "d">>>>
    /\ fuzzy_max = 1
    /\ Len(fuzzy_matches) = 1
    /\ fuzzy_matches[1].matched_term = <<"a", "b", "c", "d">>

\* the 0-based window of the Jaro definition for strings of these lengths
JaroWindow(l1, l2) ==
    LET longer == IF l1 >= l2 THEN l1 ELSE l2
        half == (longer \div 2) - 1
    IN IF half >= 0 THEN half ELSE 0
\* the matched pairs <<i, j>> among the first n characters of s1: each
\* character takes the first unmatched equal character of s2 in its window
RECURSIVE JaroMatches(_, _, _)
JaroMatches(s1, s2, n) ==
    IF n = 0 THEN {}
    ELSE LET before == JaroMatches(s1, s2, n - 1)
             free == {j \in 1..Len(s2) :
                        /\ s2[j] = s1[n]
                        /\ j - n <= JaroWindow(Len(s1), Len(s2))
                        /\ n - j <= JaroWindow(Len(s1), Len(s2))
                        /\ \A p \in before : p[2] # j}
         IN IF free = {} THEN before
            ELSE before \cup {<<n, CHOOSE j \in free : \A o \in free : j <= o>>}
\* the numbers of the set S in increasing order
RECURSIVE Ascending(_)
Ascending(S) ==
    IF S = {} THEN << >>
    ELSE LET least == CHOOSE x \in S : \A y \in S : x <= y
         IN <<least>> \o Ascending(S \ {least})
\* (m/len1 + m/len2 + (m - t)/m)/3 for non-empty strings, t being half the
\* number of places where the matched characters of s1 and of s2, each in
\* its original order, differ; 0 without a match
JaroByDefinition(s1, s2) ==
    LET pairs == JaroMatches(s1, s2, Len(s1))
        m == Cardinality(pairs)
        in1 == Ascending({p[1] : p \in pairs})
        in2 == Ascending({p[2] : p \in pairs})
        twice_t == Cardinality({k \in 1..m : s1[in1[k]] # s2[in2[k]]})
    IN IF m = 0 THEN Frac(0, 1)
       ELSE Frac(2 * m * m * Len(s2) + 2 * m * m * Len(s1)
                   + (2 * m - twice_t) * Len(s1) * Len(s2),
                 6 * m * Len(s1) * Len(s2))

\* C26: for two non-empty strings _jaro_similarity is
\* (m/len1 + m/len2 + (m - t)/m)/3, where m is the number of characters
\* matched within the window max(0, floor(max(len1, len2)/2) - 1) and t the
\* number of transpositions, counted by aligning the matched characters of
\* the two strings in their original order (half the number of aligned
\* places that differ); with no match it is 0.
C26_JaroFollowsDefinition ==
    zpc = "found" =>
        \A i \in 1..Len(fuzzy_corpus) :
            LET s1 == lower(fuzzy_term)
                s2 == lower(fuzzy_corpus[i])
            IN (s1 # s2 /\ s1 # << >> /\ s2 # << >>) =>
                  _jaro_similarity(s1, s2) = JaroByDefinition(s1, s2)

\* 'abcd' against 'abdc': four matches, one transposition, 11/12; against
\* 'ba': two matches, one transposition, 2/3
C26_Witness ==
    /\ zpc = "found"
    /\ fuzzy_term = <<"a", "b", "c", "d">>
    /\ fuzzy_corpus = <<<<"a", "b", "d", "c">>, <<"b", "a">>>>
    /\ _jaro_similarity(fuzzy_term, fuzzy_corpus[1]) = Frac(11, 12)
    /\ _jaro_similarity(fuzzy_term, fuzzy_corpus[2]) = Frac(2, 3)
    /\ Len(fuzzy_matches) >= 1

(***************************************************************************)
(* RealityStone of infinity_search_engine.py: the ranking stage.  A        *)
(* document is the dict of its JSON object, its items in the order of the  *)
(* file; every value is a str of letters, digits and blanks, for which     *)
(* re.findall(r'\b\w+\b', value) is value.split().  The scores are float   *)
(* sums of logarithms and boosts: they are not computed, and the order     *)
(* they give to the documents is an input of the search.                   *)
(***************************************************************************)

\* InfinityStonesSearchEngine._build_indexes, lines 257-262: self.index, a
\* word mapped to the list of one product id per occurrence of the word in
\* a str value of a document
_build_indexes(ps) ==
    LET RECURSIVE WordsOf(_)
        WordsOf(items) ==
            IF items = << >> THEN << >>
            ELSE split(lower(Head(items).value)) \o WordsOf(Tail(items))
        RECURSIVE Appends(_)
        Appends(rest) ==
            IF rest = << >> THEN << >>
            ELSE LET words == WordsOf(Head(rest))
                 IN [i \in 1..Len(words) |->
                       [word |-> words[i],
                        product_id |-> OdGet(Head(rest), "id")]]
                    \o Appends(Tail(rest))
        appends == Appends(ps)
        Posted(word) == SelectSeq(appends, LAMBDA a : a.word = word)
    IN [word \in {appends[i].word : i \in 1..Len(appends)} |->
          [i \in 1..Len(Posted(word)) |-> Posted(word)[i].product_id]]

\* RealityStone._calculate_bm25_score for one document: the query words it
\* takes a logarithm for, each with its df, and whether math.log raises.
\* The argument (N - df + 0.5) / (df + 0.5) is (2(N - df) + 1) / (2 df + 1);
\* math.log raises ValueError for an argument that is not positive.
_calculate_bm25_score(index, N, query_words, product) ==
    LET tf_positive(word) ==
            \E i \in 1..Len(product) : Contains(lower(product[i].value), word)
        terms == {[word |-> word, df |-> Len(index[word]), N |-> N] :
                     word \in {w \in query_words \cap DOMAIN index :
                                  tf_positive(w)}}
    IN [terms |-> terms,
        raises |-> \E term \in terms : 2 * (N - term.df) + 1 <= 0]

\* RealityStone._ensure_diversity, on the documents of the results
_ensure_diversity(results, diversity_factors) ==
    LET \* product_data.get(key, '').lower()
        Field(product, key) ==
            IF \E i \in 1..Len(product) : product[i].key = key
            THEN lower(OdGet(product, key))
            ELSE << >>
        RECURSIVE Loop(_, _, _, _)
        Loop(rest, diverse_results, seen_brands, seen_categories) ==
            IF rest = << >> THEN diverse_results
            ELSE LET brand == Field(Head(rest), "Brand")
                     category == Field(Head(rest), "Type")
                     keep ==
                         /\ Cardinality(seen_brands) < 5
                              \/ brand \notin seen_brands
                         /\ Cardinality(seen_categories) < 3
                              \/ category \notin seen_categories
                     kept == IF keep THEN Append(diverse_results, Head(rest))
                             ELSE diverse_results
                 IN IF Len(kept) >= 15 THEN kept
                    ELSE Loop(Tail(rest), kept,
                              IF keep THEN seen_brands \cup {brand}
                              ELSE seen_brands,
                              IF keep THEN seen_categories \cup {category}
                              ELSE seen_categories)
    IN IF ~diversity_factors.brand_diversity THEN results
       ELSE Loop(results, << >>, {}, {})

\* the engine has loaded some of five documents; three are phones or lamps
\* of one Type, one has the word r twice in its Name
RealityInit ==
    /\ Idle({"reality"})
    /\ reality_products \in
          LET Document(id, name, brand, type) ==
                  <<[key |-> "id", value |-> id],
                    [key |-> "Name", value |-> name],
                    [key |-> "Brand", value |-> brand],
                    [key |-> "Type", value |-> type]>>
              pool == <<Document(<<"1">>, <<"r", " ", "p">>, <<"A">>, <<"P">>),
                        Document(<<"2">>, <<"r", " ", "c">>, <<"B">>, <<"P">>),
                        Document(<<"3">>, <<"r", " ", "t">>, <<"S">>, <<"T">>),
                        Document(<<"4">>, <<"r", " ", "l">>, <<"Y">>, <<"L">>),
                        Document(<<"5">>, <<"r", " ", "r">>, <<"B">>, <<"L">>)>>
              RECURSIVE Loaded(_, _)
              Loaded(i, chosen) ==
                  IF i > Len(pool) THEN << >>
                  ELSE (IF i \in chosen THEN <<pool[i]>> ELSE << >>)
                          \o Loaded(i + 1, chosen)
          IN {Loaded(1, chosen) : chosen \in SUBSET (1..Len(pool))}
    /\ reality_query \in {<<"r">>, <<"p">>, <<"l">>, <<"R", " ", "l">>}
    /\ reality_out = [raises |-> FALSE, terms |-> {}, ranked |-> << >>,
                      results |-> << >>]
    /\ rpc = "start"

\* RealityStone.search(query), lines 1151-1173.  search takes the query and
\* nothing else; diversity_factors is the dict of __init__, lines 1145-1149.
RealitySearch ==
    /\ rpc = "start"
    /\ LET index == _build_indexes(reality_products)
           N == Len(reality_products)
           query_words == SetOf(split(lower(reality_query)))
           \* SpaceStone.search: the documents posted for a query word
           space_results ==
               Prefix(SelectSeq(reality_products, LAMBDA product :
                         \E word \in query_words \cap DOMAIN index :
                            OdGet(product, "id") \in SetOf(index[word])),
                      500)
           n == Len(space_results)
           bm25 == [i \in 1..n |->
                      _calculate_bm25_score(index, N, query_words,
                                            space_results[i])]
           terms == UNION {bm25[i].terms : i \in 1..n}
           IdsOf(results) ==
               [i \in 1..Len(results) |-> OdGet(results[i], "id")]
       IN IF \E i \in 1..n : bm25[i].raises
          THEN reality_out' = [raises |-> TRUE, terms |-> terms,
                               ranked |-> << >>, results |-> << >>]
          ELSE \E order \in Permutations(1..n) :
                  LET \* after _apply_ranking_models, _apply_personalization
                      \* and _apply_business_logic
                      business_enhanced_results ==
                          [i \in 1..n |-> space_results[order[i]]]
                      diverse_results ==
                          _ensure_diversity(business_enhanced_results,
                              [brand_diversity |-> TRUE,
                               category_diversity |-> TRUE,
                               price_diversity |-> TRUE])
                  IN reality_out' =
                        [raises |-> FALSE, terms |-> terms,
                         ranked |-> IdsOf(business_enhanced_results),
                         results |-> IdsOf(Prefix(diverse_results, 200))]
    /\ rpc' = "searched"
    /\ UNCHANGED <<cacheVars, now, seqVars, concVars, boolVars, evalVars,
                   engVars, facetVars, fuzzyVars, reality_products,
                   reality_query>>

RealityNext == RealitySearch

SpecReality == RealityInit /\ [][RealityNext]_vars

\* C23: diversity selection is applied only when it is requested: a search
\* that does not request it (search takes the query and nothing else, so no
\* search does) returns the list the ranking left, cut to 200 results,
\* without the diversity filter.
C23_DiversityOnlyWhenRequested ==
    (rpc = "searched" /\ ~reality_out.raises) =>
        reality_out.results = Prefix(reality_out.ranked, 200)

\* the number of documents that hold the word in a str value
DocumentsWith(word) ==
    Cardinality({i \in 1..Len(reality_products) :
                    \E k \in 1..Len(reality_products[i]) :
                       word \in SetOf(split(lower(reality_products[i][k].value)))})

\* C30: the document frequency the BM25 scorer uses for a query word is the
\* number of documents that contain the word, so it never exceeds the
\* number N of documents, and the argument of the logarithm,
\* (N - df + 0.5) / (df + 0.5), is positive.
C30_DfIsDocumentCount ==
    rpc = "searched" =>
        \A term \in reality_out.terms :
            /\ term.df = DocumentsWith(term.word)
            /\ term.df <= term.N
            /\ 2 * (term.N - term.df) + 1 > 0
====
